---- MODULE Spec2Model ----
(***************************************************************************)
(* Model of the Myrient downloader: the queue list and its persistence in  *)
(* queue.txt, the buttons that guard queue edits, and the dispatcher that  *)
(* drains the queue through one of four pipelines, each a chain of worker  *)
(* threads whose completion signals drive the next handler.                *)
(*                                                                         *)
(* One action is one handler of the GUI thread (a button slot, a signal    *)
(* slot, __init__, closeEvent) run to its end, including every call it     *)
(* makes.  What a handler reads from the user interface or from the disk   *)
(* (selected rows, current tab, check boxes, presence of files, a worker's *)
(* result) is an input of the action.                                      *)
(***************************************************************************)
EXTENDS Integers, Sequences, FiniteSets, TLC

(* ------------------------------ bounds -------------------------------- *)

\* Number of file names the catalog of tab 0 lists (tab 1 lists the first).
NumNames == 1

\* Adds made while a run is active are allowed only below this value of
\* processed_items, which keeps the position counter finite.
MaxProcessed == 2

(* --------------------------- catalog input ---------------------------- *)

\* Tabs of result_list: one per entry of systems.yaml, numbered from 0.
Tabs == {0, 1}

\* The capability flags of the k-th flag combination (k in 0..7).
FlagsOf(k) ==
    [requires_decryption     |-> (k \div 4) % 2 = 1,
     requires_pkg_handling   |-> (k \div 2) % 2 = 1,
     has_multiple_extensions |-> k % 2 = 1]

\* The contents of systems.yaml the model draws from, as the dictionary
\* __init__ builds from it (index -> system): consecutive tabs carry
\* consecutive flag combinations, so that every combination occurs; the ninth
\* configuration is a tab whose position no entry has as its 'index'.
Configs ==
    { [t \in { u \in Tabs : (k + u) % 9 # 8 } |-> FlagsOf((k + t) % 9)] :
        k \in {0, 2, 4, 6, 8} }

\* The list of file names of a tab (systems_data[index]['list']).
Catalog(t) == IF t = 0 THEN 1..NumNames ELSE {1}

\* A queue item: the text of the list item and its Qt.UserRole data.
Items == UNION { { <<n, t>> : n \in Catalog(t) } : t \in Tabs }

NoItem == <<0, -1>>

(* ------------------------------- state -------------------------------- *)

VARIABLES
    app,                        \* "off" | "running"
    systems_data,               \* index -> flags of the system with that index
    queue_list,                 \* the QListWidget: sequence of <<text, index>>
    queue_txt,                  \* the file queue.txt: whether it exists, its bytes
    processed_items,
    total_items,
    add_to_queue_button,        \* isEnabled()
    remove_from_queue_button,   \* isEnabled()
    start_button,               \* isEnabled(), as every other clickable
    worker,                     \* the worker thread that is running
    ctx,                        \* what the callbacks of the running pipeline captured
    last_op,                    \* the last queue operation and what it observed
    download,                   \* one downloadhelper call and its DownloadThread
    splitter,                   \* one SplitPkgThread or SplitIsoThread
    file_ops,                   \* one FileOperationsThread
    unzip,                      \* one UnzipRunner
    psn,                        \* one PSN item from handle_psn_files on
    ps3,                        \* one PS3 item from handle_ps3_files on
    plain,                      \* one plain item from handle_extracted_files on
    multi                       \* one multi-file item from after_download on

\* The workers examined step by step, each in a specification of its own.
units == <<download, splitter, file_ops, unzip, psn, ps3, plain, multi>>

vars == <<app, systems_data, queue_list, queue_txt, processed_items, total_items,
          add_to_queue_button, remove_from_queue_button, start_button,
          worker, ctx, last_op, units>>

\* A worker that the specification at hand does not look into.
Idle == [pc |-> "idle"]

NoFile == [exists |-> FALSE, bytes |-> <<>>]

File(b) == [exists |-> TRUE, bytes |-> b]

NoCtx == [item |-> NoItem, pipeline |-> "none", zip_ok |-> FALSE,
          iso_file |-> FALSE, decrypt |-> FALSE]

\* A record of the step just taken: the queue operation it performed ("other"
\* for a handler that performs none) and one observation about it.
Op(name, flag) == [op |-> name, flag |-> flag]

Other == Op("other", FALSE)

\* A file name is its stem and its extension (the end of the string, in the
\* letter case the archive gives it); a path is a directory and a name.
Name(stem, ext) == [stem |-> stem, ext |-> ext]

Path(dir, name) == [dir |-> dir, name |-> name]

\* str.endswith: the comparison is case-sensitive.
endswith(name, suffix) == name.ext = suffix

\* os.path.basename
basename(path) == path.name

\* None where a path is expected.
NoPath == Path("-", Name("-", "-"))

\* self.processing_dir
processing_dir == "processing"

\* system['output_dir'] of the system with index t.
OutputDir(t) == IF t = 0 THEN "MyrientDownloads/0" ELSE "MyrientDownloads/1"

\* decrypted_iso of decryption_finished: the name under which ps3dec leaves
\* its output, {base}.iso_decrypted.iso on Windows and {base}.iso.dec elsewhere.
decrypted_iso(windows) ==
    Path(processing_dir, Name("base", IF windows THEN ".iso_decrypted.iso" ELSE ".iso.dec"))

\* final_iso of decryption_finished: {base}.iso.dec when the encrypted ISO is
\* kept, {base}.iso otherwise.
final_iso(keep_enc) ==
    Path(processing_dir, Name("base", IF keep_enc THEN ".iso.dec" ELSE ".iso"))

\* The body of decryption_finished when the decrypted file exists: the
\* encrypted ISO is removed unless it is kept, a file at the final path is
\* removed, and the decrypted file is renamed to the final path
\* (FileNotFoundError when it is the file just removed).  iso_removed says
\* whether os.remove(iso_file) ran, decrypted_at where the decrypted data
\* ends up.
DecryptionFiles(windows, keep_enc, iso_file, fs) ==
    LET fs1 == IF keep_enc THEN fs ELSE fs \ {iso_file}
        fs2 == fs1 \ {final_iso(keep_enc)}
    IN  IF decrypted_iso(windows) \notin fs2
        THEN [raised |-> TRUE, fs |-> fs2, iso_removed |-> ~keep_enc,
              decrypted_at |-> NoPath]
        ELSE [raised |-> FALSE,
              fs |-> (fs2 \ {decrypted_iso(windows)}) \cup {final_iso(keep_enc)},
              iso_removed |-> ~keep_enc, decrypted_at |-> final_iso(keep_enc)]

(* ---------------------------- persistence ----------------------------- *)

\* One opcode of the pickle stream with its argument (0 when it has none).
Opcode(name, arg) == [op |-> name, arg |-> arg]

\* A serialisation that writes the rows last to first.
RECURSIVE PickleItemsReversed(_)
PickleItemsReversed(q) ==
    IF q = <<>> THEN <<>>
    ELSE PickleItemsReversed(Tail(q))
         \o <<Opcode("BINUNICODE", q[1][1]), Opcode("BININT", q[1][2]), Opcode("TUPLE2", 0)>>

\* for i in range(self.queue_list.count()): (item.text(), item.data(Qt.UserRole))
RECURSIVE PickleItems(_)
PickleItems(q) ==
    IF q = <<>> THEN <<>>
    ELSE <<Opcode("BINUNICODE", q[1][1]), Opcode("BININT", q[1][2]), Opcode("TUPLE2", 0)>>
         \o PickleItems(Tail(q))

\* pickle.dump of the list of (text, data) pairs: the opcode stream.
PickleDump(q) ==
    IF q = <<>> THEN <<Opcode("EMPTY_LIST", 0), Opcode("STOP", 0)>>
    ELSE <<Opcode("EMPTY_LIST", 0), Opcode("MARK", 0)>> \o PickleItems(q)
         \o <<Opcode("APPENDS", 0), Opcode("STOP", 0)>>

RECURSIVE UnpickleItems(_)
UnpickleItems(b) ==
    IF Len(b) = 0 THEN [ok |-> TRUE, value |-> <<>>]
    ELSE IF \/ Len(b) < 3
            \/ b[1].op # "BINUNICODE" \/ b[2].op # "BININT" \/ b[3].op # "TUPLE2"
         THEN [ok |-> FALSE, value |-> <<>>]
         ELSE LET rest == UnpickleItems(SubSeq(b, 4, Len(b)))
              IN  [ok |-> rest.ok,
                   value |-> IF rest.ok THEN <<<<b[1].arg, b[2].arg>>>> \o rest.value
                             ELSE <<>>]

\* pickle.load: the list the opcode stream builds, or an exception (ok = FALSE).
PickleLoad(b) ==
    IF Len(b) = 2 /\ b[1].op = "EMPTY_LIST" /\ b[2].op = "STOP"
    THEN [ok |-> TRUE, value |-> <<>>]
    ELSE IF /\ Len(b) >= 4
            /\ b[1].op = "EMPTY_LIST" /\ b[2].op = "MARK"
            /\ b[Len(b) - 1].op = "APPENDS" /\ b[Len(b)].op = "STOP"
         THEN UnpickleItems(SubSeq(b, 3, Len(b) - 2))
         ELSE [ok |-> FALSE, value |-> <<>>]

\* with open('queue.txt', 'wb') as file: pickle.dump([(text, data) ...], file)
SaveQueue(q) == File(PickleDump(q))

(* ----------------------------- dispatcher ----------------------------- *)

\* A chain that tests requires_pkg_handling before requires_decryption.
SelectPipelinePkgFirst(system) ==
    IF system.requires_pkg_handling THEN "psn_pkg"
    ELSE IF system.requires_decryption THEN "ps3_iso"
    ELSE IF system.has_multiple_extensions THEN "multi_file"
    ELSE "plain"

\* The if/elif chain of process_next_item.
SelectPipeline(system) ==
    IF system.requires_decryption THEN "ps3_iso"
    ELSE IF system.requires_pkg_handling THEN "psn_pkg"
    ELSE IF system.has_multiple_extensions THEN "multi_file"
    ELSE "plain"

\* self.systems_data.get(system_index) is not None
HasSystem(index) == index \in DOMAIN systems_data

\* self.queue_list.takeItem(0): nothing happens on an empty list.
TakeItem0(q) == IF Len(q) > 0 THEN Tail(q) ELSE q

\* process_next_item, followed through its synchronous recursion: an item
\* without a system is taken and the next one is tried; in debug mode
\* downloadhelper calls callback("DEBUG_MODE") at once, which takes the item
\* and calls process_next_item again.  The result is the state in which the
\* handler returns: a pipeline started for the head, or the queue empty.
RECURSIVE process_next_item(_, _, _, _)
\* A dispatcher that takes an item it starts no pipeline for and returns.
process_next_item_returns(q, processed, total, debug) ==
    IF Len(q) > 0
    THEN LET system_index == q[1][2]
             tot          == IF processed = 0 THEN Len(q) ELSE total
         IN  IF HasSystem(system_index) /\ ~debug
             THEN [queue |-> q, processed |-> processed + 1, total |-> tot,
                   started |-> TRUE,
                   pipeline |-> SelectPipeline(systems_data[system_index])]
             ELSE [queue |-> Tail(q), processed |-> processed + 1, total |-> tot,
                   started |-> FALSE, pipeline |-> "none"]
    ELSE [queue |-> q, processed |-> 0, total |-> 0,
          started |-> FALSE, pipeline |-> "none"]

process_next_item(q, processed, total, debug) ==
    IF Len(q) > 0
    THEN LET system_index == q[1][2]
             tot          == IF processed = 0 THEN Len(q) ELSE total
         IN  IF HasSystem(system_index) /\ ~debug
             THEN [queue |-> q, processed |-> processed + 1, total |-> tot,
                   started |-> TRUE,
                   pipeline |-> SelectPipeline(systems_data[system_index])]
             ELSE process_next_item(Tail(q), processed + 1, tot, debug)
    ELSE [queue |-> q, processed |-> 0, total |-> 0,
          started |-> FALSE, pipeline |-> "none"]

\* What downloadhelper finds on disk for base_name.zip, compared with the
\* remote size: whether the file is there and how its size compares.
LocalZip == {"absent", "smaller", "equal", "larger"}

\* A test that lets the callback run at once only when the size is unknown.
SkipsDownloadUnknownSizeOnly(local, header) == local # "absent" /\ ~header

\* downloadhelper below the debug check: the callback is called at once, with
\* no DownloadThread, when the staged zip exists and the HEAD response has
\* no content-length or reports the local size.
SkipsDownload(local, header) == local # "absent" /\ (~header \/ local = "equal")

\* The tail of every handler that ends in process_next_item on the list q:
\* the counters, the list, and either the worker of the pipeline started for
\* the head, or, the queue being empty, the save and the re-enabled buttons.
\* enabled is what the three buttons are when the handler reaches this call.
Dispatch(q, debug, local, header, enabled) ==
    LET r == process_next_item(q, processed_items, total_items, debug)
    IN  /\ queue_list' = r.queue
        /\ processed_items' = r.processed
        /\ total_items' = r.total
        /\ IF r.started
           THEN /\ ctx' = [NoCtx EXCEPT !.item = r.queue[1], !.pipeline = r.pipeline,
                                        !.zip_ok = (local = "equal")]
                /\ worker' = IF SkipsDownload(local, header) THEN "unzip_runner"
                             ELSE "download_thread"
                /\ queue_txt' = queue_txt
                /\ add_to_queue_button' = enabled[1]
                /\ remove_from_queue_button' = enabled[2]
                /\ start_button' = enabled[3]
           ELSE /\ ctx' = NoCtx
                /\ worker' = "none"
                /\ queue_txt' = SaveQueue(r.queue)
                /\ add_to_queue_button' = TRUE
                /\ remove_from_queue_button' = TRUE
                /\ start_button' = TRUE

(* --------------------------- process lifetime ------------------------- *)

Init ==
    /\ app = "off"
    /\ systems_data \in Configs
    /\ queue_list = <<>>
    /\ queue_txt = NoFile
    /\ processed_items = 0
    /\ total_items = 0
    /\ add_to_queue_button = FALSE
    /\ remove_from_queue_button = FALSE
    /\ start_button = TRUE
    /\ worker = "none"
    /\ ctx = NoCtx
    /\ last_op = Other
    /\ download = Idle
    /\ splitter = Idle
    /\ file_ops = Idle
    /\ unzip = Idle
    /\ psn = Idle
    /\ ps3 = Idle
    /\ plain = Idle
    /\ multi = Idle

\* The process is gone: its threads and widgets with it.  queue_list keeps
\* the list the process held when it ended, for comparison after a restart.
ProcessGone ==
    /\ app' = "off"
    /\ processed_items' = 0
    /\ total_items' = 0
    /\ add_to_queue_button' = FALSE
    /\ remove_from_queue_button' = FALSE
    /\ start_button' = TRUE
    /\ worker' = "none"
    /\ ctx' = NoCtx
    /\ UNCHANGED <<systems_data, queue_list>>

\* GUIDownloader.__init__: the queue is loaded from queue.txt when the file
\* exists; an exception of pickle.load is printed and raised again, and the
\* program ends without a window.
Startup ==
    /\ app = "off"
    /\ LET loaded == IF queue_txt.exists THEN PickleLoad(queue_txt.bytes)
                     ELSE [ok |-> TRUE, value |-> <<>>]
       IN  IF loaded.ok
           THEN /\ app' = "running"
                /\ queue_list' = loaded.value
                /\ last_op' = Op("__init__", TRUE)
           ELSE /\ app' = "off"
                /\ queue_list' = queue_list
                /\ last_op' = Op("__init__", FALSE)
    /\ processed_items' = 0
    /\ total_items' = 0
    /\ add_to_queue_button' = FALSE
    /\ remove_from_queue_button' = FALSE
    /\ start_button' = TRUE
    /\ UNCHANGED <<systems_data, queue_txt, worker, ctx>>
    /\ UNCHANGED units

\* closeEvent: the queue list is written to queue.txt and the window closes.
closeEvent ==
    /\ app = "running"
    /\ queue_txt' = SaveQueue(queue_list)
    /\ last_op' = Op("closeEvent", TRUE)
    /\ ProcessGone
    /\ UNCHANGED units

\* closeEvent with the process killed between open('queue.txt', 'wb'), which
\* empties the file, and the end of pickle.dump.
closeEventKilled ==
    /\ app = "running"
    /\ queue_txt' = File(<<>>)
    /\ last_op' = Op("closeEvent", FALSE)
    /\ ProcessGone
    /\ UNCHANGED units

\* The process is killed (or the machine stops) outside any handler.
Kill ==
    /\ app = "running"
    /\ queue_txt' = queue_txt
    /\ last_op' = Op("kill", FALSE)
    /\ ProcessGone
    /\ UNCHANGED units

(* ------------------------------ UI handlers --------------------------- *)

\* The rows a user can have selected in a table: in any order, no row twice.
Selections(S) ==
    { s \in UNION { [1..n -> S] : n \in 0..Cardinality(S) } :
        \A i, j \in DOMAIN s : i # j => s[i] # s[j] }

\* Slot of itemSelectionChanged of a catalog table and of currentChanged of
\* the tab widget; selected is bool(currentWidget().selectedItems()).
update_add_to_queue_button(selected) ==
    /\ app = "running"
    /\ add_to_queue_button' = selected
    /\ last_op' = Other
    /\ UNCHANGED <<app, systems_data, queue_list, queue_txt, processed_items, total_items,
                   remove_from_queue_button, start_button, worker, ctx>>
    /\ UNCHANGED units

\* Slot of itemSelectionChanged of the queue list.
update_remove_from_queue_button(selected) ==
    /\ app = "running"
    /\ selected => Len(queue_list) > 0
    /\ remove_from_queue_button' = selected
    /\ last_op' = Other
    /\ UNCHANGED <<app, systems_data, queue_list, queue_txt, processed_items, total_items,
                   add_to_queue_button, start_button, worker, ctx>>
    /\ UNCHANGED units

\* A scan that starts at the second row.
IsDuplicateFromSecondRow(q, full_filename, current_system_index) ==
    \E i \in 2..Len(q) : q[i][1] = full_filename /\ q[i][2] = current_system_index

\* The duplicate scan of add_to_queue.
IsDuplicate(q, full_filename, current_system_index) ==
    \E i \in 1..Len(q) : q[i][1] = full_filename /\ q[i][2] = current_system_index

\* The loop of add_to_queue over the selected rows.
RECURSIVE AddSelected(_, _, _)
AddSelected(q, selected_items, current_system_index) ==
    IF selected_items = <<>> THEN q
    ELSE LET full_filename == Head(selected_items)
         IN  AddSelected(IF IsDuplicate(q, full_filename, current_system_index) THEN q
                         ELSE Append(q, <<full_filename, current_system_index>>),
                         Tail(selected_items), current_system_index)

\* Click on 'Add to Queue' with the rows selected_items of tab
\* current_system_index selected.  Nothing is written to queue.txt.
add_to_queue(current_system_index, selected_items) ==
    /\ app = "running"
    /\ add_to_queue_button
    /\ processed_items < MaxProcessed
    /\ queue_list' = AddSelected(queue_list, selected_items, current_system_index)
    /\ last_op' = Op("add_to_queue",
                     \E i \in DOMAIN selected_items :
                        IsDuplicate(queue_list, selected_items[i], current_system_index))
    /\ UNCHANGED <<app, systems_data, queue_txt, processed_items, total_items,
                   add_to_queue_button, remove_from_queue_button, start_button,
                   worker, ctx>>
    /\ UNCHANGED units

\* The list without the rows in rows.
RECURSIVE WithoutRows(_, _, _)
WithoutRows(q, rows, i) ==
    IF i > Len(q) THEN <<>>
    ELSE (IF i \in rows THEN <<>> ELSE <<q[i]>>) \o WithoutRows(q, rows, i + 1)

\* Click on 'Remove from Queue' with the rows `rows` of the queue selected;
\* the list is then written to queue.txt.
remove_from_queue(rows) ==
    /\ app = "running"
    /\ remove_from_queue_button
    /\ queue_list' = WithoutRows(queue_list, rows, 1)
    /\ queue_txt' = SaveQueue(queue_list')
    /\ last_op' = Op("remove_from_queue", rows # {})
    /\ UNCHANGED <<app, systems_data, processed_items, total_items,
                   add_to_queue_button, remove_from_queue_button, start_button,
                   worker, ctx>>
    /\ UNCHANGED units

(* --------------------------- pipeline handlers ------------------------ *)

\* An exception that nothing catches, raised in a slot or in a worker's
\* run(): PyQt5 from 5.5 on ends the process through qFatal() (abort); an
\* older PyQt5 prints the traceback and the slot or the thread just ends.
\* In both cases no later statement runs and no signal is emitted by it.
UnhandledAborts ==
    /\ ProcessGone
    /\ queue_txt' = queue_txt

UnhandledPrinted ==
    /\ worker' = "none"
    /\ UNCHANGED <<app, systems_data, queue_list, queue_txt, processed_items,
                   total_items, add_to_queue_button, remove_from_queue_button,
                   start_button, ctx>>

Unhandled == UnhandledAborts \/ UnhandledPrinted

\* A finalization that starts the extractor again.
finalize_ps3_files_unzips(iso_file, split_files, current_index) == "unzip_runner"

\* finalize_ps3_files up to the start of the FileOperationsThread: the output
\* directory is the one of the tab shown (KeyError when that tab has no
\* system), and without split files the ISO path is passed to
\* os.path.basename (TypeError when it is None).
finalize_ps3_files(iso_file, split_files, current_index) ==
    IF ~HasSystem(current_index) THEN "raise"
    ELSE IF ~split_files /\ ~iso_file THEN "raise"
    ELSE "file_operations_thread"

\* after_decryption: os.path.getsize(None) raises TypeError.
after_decryption(iso_file, split, big, current_index) ==
    IF split
    THEN IF ~iso_file THEN "raise"
         ELSE IF big THEN "split_iso_thread"
         ELSE finalize_ps3_files(iso_file, FALSE, current_index)
    ELSE finalize_ps3_files(iso_file, FALSE, current_index)

\* after_dkey_download: dkey_zip is "none" (no key archive was downloaded),
\* "valid" or "invalid" (zipfile.ZipFile raises on it); dkey_file is whether
\* the key file exists afterwards.
after_dkey_download(dkey_zip, iso_file, decrypt, dkey_file, split, big, current_index) ==
    IF dkey_zip = "invalid" THEN "raise"
    ELSE IF decrypt /\ iso_file /\ dkey_file THEN "runner"
    ELSE after_decryption(iso_file, split, big, current_index)

\* handle_ps3_files: with no key file on disk and neither check box set, the
\* method returns without starting or calling anything.
handle_ps3_files(iso_file, dkey_present, decrypt, keep_dkey, split, big, current_index) ==
    IF ~dkey_present
    THEN IF decrypt \/ keep_dkey THEN "dkey_download_thread" ELSE "return"
    ELSE after_dkey_download("none", iso_file, decrypt, TRUE, split, big, current_index)

\* The handler ends as `next` says: with an exception, with a plain return
\* that started nothing, or with the worker it started.
Continue(next, context) ==
    IF next = "raise" THEN Unhandled
    ELSE /\ worker' = IF next = "return" THEN "none" ELSE next
         /\ ctx' = context
         /\ UNCHANGED <<app, systems_data, queue_list, queue_txt, processed_items,
                        total_items, add_to_queue_button, remove_from_queue_button,
                        start_button>>

\* What the two reads of after_decryption and finalize_ps3_files see: the
\* split check box, whether the ISO reaches the split size, the tab shown.
SplitInputs == [split : BOOLEAN, big : BOOLEAN, current_index : Tabs]

\* The same reads on a path that may not reach after_decryption: when it does
\* not, nothing is read and one value stands for all.
SplitInputsIf(reached) ==
    IF reached THEN SplitInputs
    ELSE {[split |-> FALSE, big |-> FALSE, current_index |-> 0]}

\* keep_dkey_checkbox is read only when the key file is absent and the
\* decrypt check box is not set (the right operand of `or`).
KeepDkeyInputs(dkey_present, decrypt) ==
    IF ~dkey_present /\ ~decrypt THEN BOOLEAN ELSE {FALSE}

\* What downloadhelper sees: the debug check box, and when it is not set the
\* staged zip and whether the HEAD response carries content-length.
DownloadInputs ==
    {[debug |-> TRUE, local |-> "absent", header |-> TRUE]}
    \cup { d \in [debug : {FALSE}, local : LocalZip, header : BOOLEAN] :
             d.local = "absent" => d.header }

\* A handler's takeItem(0) followed by process_next_item; the observation is
\* whether the item taken, if any, is the one the pipeline was started for.
TakeAndDispatch(d) ==
    /\ Dispatch(TakeItem0(queue_list), d.debug, d.local, d.header,
                <<add_to_queue_button, remove_from_queue_button, start_button>>)
    /\ last_op' = Op("takeItem", Len(queue_list) > 0 => Head(queue_list) = ctx.item)
    /\ UNCHANGED <<app, systems_data>>

\* Click on 'Start': every clickable is disabled, then process_next_item.
start_download ==
    /\ app = "running"
    /\ start_button
    /\ \E d \in DownloadInputs :
          Dispatch(queue_list, d.debug, d.local, d.header, <<FALSE, FALSE, FALSE>>)
    /\ last_op' = Other
    /\ UNCHANGED <<app, systems_data>>
    /\ UNCHANGED units

\* The DownloadThread of downloadhelper ends.  Either download() returned, or
\* it raised (retries used up, or an error it does not catch) and the staged
\* zip is missing or partial.  Unless the exception ended the process, the
\* thread's finished signal calls after_download, which starts the
\* UnzipRunner.
download_finished ==
    /\ app = "running"
    /\ worker = "download_thread"
    /\ \E complete \in BOOLEAN :
          /\ last_op' = Other
          /\ \/ Continue("unzip_runner", [ctx EXCEPT !.zip_ok = complete])
             \/ ~complete /\ UnhandledAborts
    /\ UNCHANGED units

\* The UnzipRunner ends: on a missing or broken archive zipfile.ZipFile raises
\* in run() and finished_signal is never emitted; otherwise the slot
\* connected to finished_signal runs (handle_extracted_files,
\* handle_psn_files, handle_extracted_folder or handle_ps3_files).
unzip_finished ==
    /\ app = "running"
    /\ worker = "unzip_runner"
    /\ last_op' = Other
    /\ IF ~ctx.zip_ok THEN Unhandled
       ELSE IF ctx.pipeline = "ps3_iso"
       THEN \E iso_file, dkey_present, decrypt \in BOOLEAN :
            \E keep_dkey \in KeepDkeyInputs(dkey_present, decrypt) :
            \E i \in SplitInputsIf(dkey_present /\ ~(decrypt /\ iso_file)) :
               Continue(handle_ps3_files(iso_file, dkey_present, decrypt, keep_dkey,
                                         i.split, i.big, i.current_index),
                        [ctx EXCEPT !.iso_file = iso_file, !.decrypt = decrypt])
       ELSE Continue("file_operations_thread", ctx)
    /\ UNCHANGED units

\* The DownloadThread of the key archive ends and after_dkey_download runs.
dkey_download_finished ==
    /\ app = "running"
    /\ worker = "dkey_download_thread"
    /\ \E complete \in BOOLEAN :
          /\ last_op' = Other
          /\ \/ \E dkey_file \in (IF complete THEN BOOLEAN ELSE {FALSE}) :
                \E i \in SplitInputsIf(complete /\ ~(ctx.decrypt /\ ctx.iso_file /\ dkey_file)) :
                   Continue(after_dkey_download(IF complete THEN "valid" ELSE "invalid",
                                                ctx.iso_file, ctx.decrypt, dkey_file,
                                                i.split, i.big, i.current_index),
                            ctx)
             \/ ~complete /\ UnhandledAborts
    /\ UNCHANGED units

\* The CommandRunner ends with a non-zero return code: CalledProcessError is
\* raised before finished.emit().
runner_failed ==
    /\ app = "running"
    /\ worker = "runner"
    /\ last_op' = Other
    /\ Unhandled
    /\ UNCHANGED units

\* Whether the renaming of decryption_finished raises, over the platforms and
\* the states of keep_enc_checkbox.
RenameRaises ==
    LET iso_file == Path(processing_dir, Name("base", ".iso"))
    IN  { DecryptionFiles(windows, keep_enc, iso_file,
                          {iso_file, decrypted_iso(windows)}).raised :
            windows \in BOOLEAN, keep_enc \in BOOLEAN }

\* The CommandRunner ends with return code 0 and decryption_finished runs; it
\* gives the item up when the decrypted file is not there.
decryption_finished ==
    /\ app = "running"
    /\ worker = "runner"
    /\ \/ /\ last_op' = Other
          /\ \E i \in SplitInputs : \E raised \in RenameRaises :
                Continue(IF raised \/ ~HasSystem(i.current_index)
                         THEN "raise"
                         ELSE after_decryption(TRUE, i.split, i.big, i.current_index),
                         ctx)
       \/ \E d \in DownloadInputs : TakeAndDispatch(d)
    /\ UNCHANGED units

\* The SplitIsoThread ends: splitting_finished calls finalize_ps3_files.
splitting_finished ==
    /\ app = "running"
    /\ worker = "split_iso_thread"
    /\ last_op' = Other
    /\ \E t \in Tabs : Continue(finalize_ps3_files(TRUE, TRUE, t), ctx)
    /\ UNCHANGED units

\* The FileOperationsThread ends: file_operations_finished,
\* ps3_file_operations_finished, psn_file_operations_finished or
\* multi_file_operations_finished takes the head and goes on.
file_operations_finished ==
    /\ app = "running"
    /\ worker = "file_operations_thread"
    /\ \E d \in DownloadInputs : TakeAndDispatch(d)
    /\ UNCHANGED units

(* ---------------------------- specification --------------------------- *)

Next ==
    \/ Startup
    \/ closeEvent
    \/ closeEventKilled
    \/ Kill
    \/ \E selected \in BOOLEAN : update_add_to_queue_button(selected)
    \/ \E selected \in BOOLEAN : update_remove_from_queue_button(selected)
    \/ \E t \in Tabs : \E sel \in Selections(Catalog(t)) : add_to_queue(t, sel)
    \/ \E rows \in SUBSET (1..Len(queue_list)) : remove_from_queue(rows)
    \/ start_download
    \/ download_finished
    \/ unzip_finished
    \/ dkey_download_finished
    \/ runner_failed
    \/ decryption_finished
    \/ splitting_finished
    \/ file_operations_finished

Spec == Init /\ [][Next]_vars

\* A worker thread ends and the slot connected to its signal, if any, runs.
WorkerEnds ==
    \/ download_finished
    \/ unzip_finished
    \/ dkey_download_finished
    \/ runner_failed
    \/ decryption_finished
    \/ splitting_finished
    \/ file_operations_finished

\* The same program, with the assumption that a worker thread that was
\* started ends and the event loop delivers its signal.
FairSpec == Init /\ [][Next]_vars /\ WF_vars(WorkerEnds)

(* ----------------------------- downloader ----------------------------- *)

\* The main window at rest while one worker is examined on its own.
pipeline_vars == <<app, systems_data, queue_list, queue_txt, processed_items,
                   total_items, add_to_queue_button, remove_from_queue_button,
                   start_button, worker, ctx, last_op>>

PipelineAtRest ==
    /\ app = "off"
    /\ systems_data = [t \in Tabs |-> FlagsOf(t)]
    /\ queue_list = <<>>
    /\ queue_txt = NoFile
    /\ processed_items = 0
    /\ total_items = 0
    /\ add_to_queue_button = FALSE
    /\ remove_from_queue_button = FALSE
    /\ start_button = TRUE
    /\ worker = "none"
    /\ ctx = NoCtx
    /\ last_op = Other

\* DownloadThread(url, filename, retries=50): the number of attempts, scaled.
Retries == 2

\* The largest remote file, in chunks as response.content.read returns them.
MaxSize == 3

\* Significant bits of a float (53 in CPython), scaled; random.random()
\* returns k / 2^MantissaBits for an integer 0 <= k < 2^MantissaBits.
MantissaBits == 3

RECURSIVE Pow2(_)
Pow2(n) == IF n = 0 THEN 1 ELSE 2 * Pow2(n - 1)

\* Number of bits of a positive integer.
RECURSIVE BitLength(_)
BitLength(n) == IF n = 0 THEN 0 ELSE 1 + BitLength(n \div 2)

\* n / q rounded to the nearest integer, ties to even (IEEE 754 default).
RoundHalfEven(n, q) ==
    LET lo == n \div q
        r  == n % q
    IN  IF 2 * r < q THEN lo
        ELSE IF 2 * r > q THEN lo + 1
        ELSE IF lo % 2 = 0 THEN lo ELSE lo + 1

\* The float nearest to n / 2^MantissaBits, as a multiple of 2^-MantissaBits.
RoundToFloat(n) ==
    IF BitLength(n) <= MantissaBits THEN n
    ELSE LET q == Pow2(BitLength(n) - MantissaBits)
         IN  RoundHalfEven(n, q) * q

\* The numerators k of the values random.random() can return.
RandomValues == 0..(Pow2(MantissaBits) - 1)

\* 2 ** i + random.random(): the int is converted to float and the sum is
\* rounded to a float.  Result in units of 2^-MantissaBits seconds.
BackoffDelay(i, k) == RoundToFloat(Pow2(i) * Pow2(MantissaBits) + k)

\* The staged zip against the remote size, as downloadhelper compares them.
LocalClass(exists, size, remote) ==
    IF ~exists THEN "absent"
    ELSE IF size < remote THEN "smaller"
    ELSE IF size = remote THEN "equal"
    ELSE "larger"

\* open(self.filename, 'wb'): the file is emptied.
OpenTruncate(exists, size) == 0

\* open(self.filename, 'ab'): the size of the file once it is open.
OpenAppend(exists, size) == IF exists THEN size ELSE 0

\* One call of downloadhelper before it has done anything.
DownloadStart(debug, exists, size, remote) ==
    [pc |-> "helper", debug |-> debug, exists |-> exists, size |-> size,
     before |-> [exists |-> exists, size |-> size], remote |-> remote,
     head |-> "none", i |-> 0, attempts |-> 0, range_from |-> -1, status |-> 0,
     body |-> 0, reads |-> 0, running |-> TRUE, stop_threads_called |-> FALSE,
     read_after_stop |-> FALSE, delay |-> -1, error |-> "none",
     complete |-> FALSE, callback |-> "none", written |-> {}]

DownloadInit ==
    /\ PipelineAtRest
    /\ plain = Idle
    /\ multi = Idle
    /\ unzip = Idle
    /\ psn = Idle
    /\ ps3 = Idle
    /\ splitter = Idle
    /\ file_ops = Idle
    /\ \E debug, exists \in BOOLEAN : \E size \in 0..(MaxSize + 1) : \E remote \in 1..MaxSize :
          /\ ~exists => size = 0
          /\ download = DownloadStart(debug, exists, size, remote)

DownloadFrame == UNCHANGED <<pipeline_vars, splitter, file_ops, unzip, psn, ps3, plain, multi>>

\* downloadhelper: in debug mode the callback gets "DEBUG_MODE"; with a staged
\* zip the HEAD request decides whether the callback gets the zip at once
\* (no content-length, or sizes equal) or a DownloadThread is started.  An
\* exception of requests.head is not caught.
downloadhelper ==
    /\ download.pc = "helper"
    /\ IF download.debug
       THEN download' = [download EXCEPT !.pc = "skipped", !.callback = "DEBUG_MODE"]
       ELSE IF download.exists
       THEN \E head \in {"length", "no_length", "error"} :
               IF head = "error"
               THEN download' = [download EXCEPT !.pc = "raised", !.head = head,
                                                 !.error = "other"]
               ELSE IF SkipsDownload(LocalClass(download.exists, download.size,
                                                download.remote), head = "length")
               THEN download' = [download EXCEPT !.pc = "skipped", !.head = head,
                                                 !.callback = "zip"]
               ELSE download' = [download EXCEPT !.pc = "attempt", !.head = head]
       ELSE download' = [download EXCEPT !.pc = "attempt"]
    /\ DownloadFrame

\* except aiohttp.ClientPayloadError / asyncio.TimeoutError: the message is
\* printed and the coroutine sleeps 2 ** i + random.random() seconds.
Interrupted(d, kind, k) ==
    [d EXCEPT !.pc = "backoff", !.error = kind, !.body = 0,
              !.delay = BackoffDelay(d.i, k)]

\* An exception download() does not catch leaves run() before
\* download_complete_signal.emit().
Uncaught(d) == [d EXCEPT !.pc = "raised", !.error = "other", !.body = 0]

\* A test that lets every status through.
StatusAcceptedAny(status) == TRUE

\* if response.status not in (200, 206): raise aiohttp.ClientPayloadError()
StatusAccepted(status) == status \in {200, 206}

\* Top of the retry loop: the Range header is set from the size of the file
\* when it exists, the request is sent and the response headers arrive.  A
\* status other than 200 and 206 raises ClientPayloadError; with 200 or 206
\* the file is opened for appending.
session_get ==
    /\ download.pc = "attempt"
    /\ LET offset == IF download.exists THEN download.size ELSE download.range_from
           sent == [download EXCEPT !.attempts = @ + 1, !.range_from = offset,
                                    !.error = "none", !.delay = -1]
       IN  \/ \E status \in {200, 206, 416, 503} :
                /\ status = 206 => (offset >= 0 /\ offset < download.remote)
                /\ status = 416 => offset >= download.remote
                /\ IF StatusAccepted(status)
                   THEN download' =
                          [sent EXCEPT !.pc = "body", !.status = status,
                                       !.exists = TRUE,
                                       !.size = OpenAppend(download.exists, download.size),
                                       !.body = IF status = 206
                                                THEN download.remote - offset
                                                ELSE download.remote,
                                       !.written = @ \cup {"filename"}]
                   ELSE \E k \in RandomValues :
                           download' = Interrupted([sent EXCEPT !.status = status],
                                                   "payload", k)
           \/ \E k \in RandomValues : download' = Interrupted(sent, "timeout", k)
           \/ download' = Uncaught(sent)
    /\ DownloadFrame

\* One response.content.read(8192): a chunk is appended to the file, or the
\* body has ended and download() returns (run() then emits
\* download_complete_signal and the thread's finished signal calls the
\* callback), or the transfer is cut or times out, or fails otherwise.
\* self.running is not read.
content_read ==
    /\ download.pc = "body"
    /\ \/ /\ download.body > 0
          /\ download' = [download EXCEPT !.size = @ + 1, !.body = @ - 1,
                                          !.reads = @ + 1,
                                          !.read_after_stop = @ \/ ~download.running]
       \/ /\ download.body = 0
          /\ download' = [download EXCEPT !.pc = "returned", !.complete = TRUE,
                                          !.callback = "zip"]
       \/ /\ download.body > 0
          /\ \E kind \in {"payload", "timeout"} : \E k \in RandomValues :
                download' = Interrupted(download, kind, k)
       \/ /\ download.body > 0
          /\ download' = Uncaught(download)
    /\ DownloadFrame

\* A test for the last attempt that is one attempt late.
LastAttemptOneLate(i) == i = Retries

\* if i == self.retries - 1
LastAttempt(i) == i = Retries - 1

\* The sleep is over: if i == self.retries - 1: raise, else the next attempt.
backoff_over ==
    /\ download.pc = "backoff"
    /\ IF LastAttempt(download.i)
       THEN download' = [download EXCEPT !.pc = "raised", !.delay = -1]
       ELSE download' = [download EXCEPT !.pc = "attempt", !.i = @ + 1, !.delay = -1]
    /\ DownloadFrame

DownloadThreadActive == download.pc \in {"attempt", "body", "backoff"}

\* DownloadThread.stop
DownloadThread_stop ==
    /\ DownloadThreadActive
    /\ download.running
    /\ download' = [download EXCEPT !.running = FALSE]
    /\ DownloadFrame

\* GUIDownloader.stop_threads, called by closeEvent: stop() for each thread of
\* self.threads, which holds the GetSoftwareListThreads only.
stop_threads ==
    /\ DownloadThreadActive
    /\ ~download.stop_threads_called
    /\ download' = [download EXCEPT !.stop_threads_called = TRUE]
    /\ DownloadFrame

DownloadThreadStep == downloadhelper \/ session_get \/ content_read \/ backoff_over

DownloadNext ==
    \/ downloadhelper
    \/ session_get
    \/ content_read
    \/ backoff_over
    \/ DownloadThread_stop
    \/ stop_threads

\* The event loop and the thread's own loop keep running.
DownloadSpec == DownloadInit /\ [][DownloadNext]_vars /\ WF_vars(DownloadThreadStep)

(* ------------------------------ splitters ----------------------------- *)

\* chunk_size = 4294967295, which is the size threshold as well, scaled.
ChunkSize == 2

\* The longest file split, in bytes.
MaxFileLen == 5

Bytes == {0, 1}

Files == UNION { [1..n -> Bytes] : n \in 0..MaxFileLen }

\* A threshold test that lets every file but the empty one be split.
BelowThresholdEmptyOnly(file_size) == file_size = 0

\* if file_size < 4294967295
BelowThreshold(file_size) == file_size < ChunkSize

\* A part count that rounds down.
NumPartsFloor(file_size, chunk_size) == file_size \div chunk_size

\* num_parts = -(-file_size // chunk_size)
NumParts(file_size, chunk_size) == -((-file_size) \div chunk_size)

\* A read that loses the byte at the file position.
ReadAfterFirst(file, pos, n) ==
    SubSeq(file, pos + 2, IF pos + n < Len(file) THEN pos + n ELSE Len(file))

\* f.read(n) at position pos of a regular file: the next n bytes, or what is
\* left of the file, or nothing at its end.
Read(file, pos, n) ==
    SubSeq(file, pos + 1, IF pos + n < Len(file) THEN pos + n ELSE Len(file))

\* str(i): the decimal digits of i.
RECURSIVE Str(_)
Str(i) == IF i < 10 THEN <<i>> ELSE Append(Str(i \div 10), i % 10)

\* str(i).zfill(2)
ZFill2(digits) == IF Len(digits) < 2 THEN <<0>> \o digits ELSE digits

\* The name of part i: SplitPkgThread writes "<stem>.pkg.666NN", a path
\* relative to the working directory; SplitIsoThread writes "<root>.iso.N"
\* next to the source.
PartName(variant, i) ==
    IF variant = "pkg"
    THEN [dir |-> "cwd", ext |-> ".pkg.666", suffix |-> ZFill2(Str(i))]
    ELSE [dir |-> "source", ext |-> ".iso.", suffix |-> Str(i)]

SplitStart(variant, file) ==
    [pc |-> "start", variant |-> variant, file |-> file, src_exists |-> TRUE,
     pos |-> 0, i |-> 0, num_parts |-> 0, parts |-> <<>>, split_files |-> <<>>,
     progress |-> <<>>, status |-> <<>>, finished |-> <<>>]

SplitInit ==
    /\ PipelineAtRest
    /\ plain = Idle
    /\ multi = Idle
    /\ unzip = Idle
    /\ psn = Idle
    /\ ps3 = Idle
    /\ download = Idle
    /\ file_ops = Idle
    /\ \E variant \in {"pkg", "iso"} : \E file \in Files :
          splitter = SplitStart(variant, file)

SplitFrame == UNCHANGED <<pipeline_vars, download, file_ops, unzip, psn, ps3, plain, multi>>

\* run() up to the loop: a file below the threshold is left alone,
\* status(False) is emitted and, by SplitIsoThread, finished([]).
split_getsize ==
    /\ splitter.pc = "start"
    /\ LET file_size == Len(splitter.file)
       IN  IF BelowThreshold(file_size)
           THEN splitter' = [splitter EXCEPT
                               !.pc = "done", !.status = Append(@, FALSE),
                               !.finished = IF splitter.variant = "iso"
                                            THEN Append(@, <<>>) ELSE @]
           ELSE splitter' = [splitter EXCEPT
                               !.pc = "loop",
                               !.num_parts = NumParts(file_size, ChunkSize)]
    /\ SplitFrame

\* One turn of the while loop: a chunk is read and, unless it is empty,
\* written to the next part file and reported.
split_chunk ==
    /\ splitter.pc = "loop"
    /\ LET chunk == Read(splitter.file, splitter.pos, ChunkSize)
       IN  IF chunk = <<>>
           THEN splitter' = [splitter EXCEPT !.pc = "after_loop"]
           ELSE splitter' = [splitter EXCEPT
                               !.pos = @ + Len(chunk),
                               !.parts = Append(@, chunk),
                               !.split_files = Append(@, PartName(splitter.variant, splitter.i)),
                               !.progress = Append(@, <<splitter.i + 1, splitter.num_parts>>),
                               !.i = @ + 1]
    /\ SplitFrame

\* After the loop: SplitPkgThread removes the source; status(True) is
\* emitted and, by SplitIsoThread, finished(split_files).
split_end ==
    /\ splitter.pc = "after_loop"
    /\ splitter' = [splitter EXCEPT
                      !.pc = "done",
                      !.src_exists = IF splitter.variant = "pkg" THEN FALSE ELSE @,
                      !.status = Append(@, TRUE),
                      !.finished = IF splitter.variant = "iso"
                                   THEN Append(@, splitter.split_files) ELSE @]
    /\ SplitFrame

SplitNext ==
    \/ split_getsize
    \/ split_chunk
    \/ split_end

SplitSpec == SplitInit /\ [][SplitNext]_vars

(* ------------------------- file operations thread --------------------- *)

\* The longest list of operations given to a FileOperationsThread.
MaxOps == 3

Paths == {"a", "b"}

\* {'type': 'rename' | 'move', 'src': ..., 'dst': ...} and
\* {'type': 'remove', 'src': ...}
Operations ==
    [type : {"rename", "move"}, src : Paths, dst : Paths]
    \cup [type : {"remove"}, src : Paths, dst : {"-"}]

OperationLists == UNION { [1..n -> Operations] : n \in 0..MaxOps }

\* os.rename, shutil.move, os.remove / shutil.rmtree on the set fs of paths
\* that exist: each raises when the source does not exist.
Perform(operation, fs) ==
    IF operation.src \notin fs THEN [ok |-> FALSE, fs |-> fs]
    ELSE IF operation.type = "remove"
         THEN [ok |-> TRUE, fs |-> fs \ {operation.src}]
         ELSE [ok |-> TRUE, fs |-> (fs \ {operation.src}) \cup {operation.dst}]

\* A loop that an exception ends.
NextOperationUnlessFailed(index, ok, n) == IF ok THEN index + 1 ELSE n + 1

\* for operation in self.operations: try ... except Exception: the loop goes
\* on with the next operation whether the operation failed or not.
NextOperation(index, ok, n) == index + 1

FileOpsInit ==
    /\ PipelineAtRest
    /\ plain = Idle
    /\ multi = Idle
    /\ unzip = Idle
    /\ psn = Idle
    /\ ps3 = Idle
    /\ download = Idle
    /\ splitter = Idle
    /\ \E operations \in OperationLists : \E fs \in SUBSET Paths :
          file_ops = [pc |-> "run", operations |-> operations, index |-> 1,
                      fs |-> fs, attempts |-> <<>>, progress |-> <<>>,
                      finished |-> 0]

FileOpsFrame == UNCHANGED <<pipeline_vars, download, splitter, unzip, psn, ps3, plain, multi>>

\* One turn of the loop of run(): the start message, the operation, then
\* "Performed ..." or, from the except clause, "Error during ...".
file_operation ==
    /\ file_ops.pc = "run"
    /\ file_ops.index <= Len(file_ops.operations)
    /\ LET operation == file_ops.operations[file_ops.index]
           done == Perform(operation, file_ops.fs)
       IN  file_ops' = [file_ops EXCEPT
                          !.fs = done.fs,
                          !.attempts = Append(@, [operation |-> operation,
                                                  had_src |-> operation.src \in file_ops.fs,
                                                  ok |-> done.ok]),
                          !.progress = @ \o << <<"start", operation.type>>,
                                               <<IF done.ok THEN "performed" ELSE "error",
                                                 operation.type>> >>,
                          !.index = NextOperation(@, done.ok, Len(file_ops.operations))]
    /\ FileOpsFrame

\* self.finished_signal.emit() after the loop.
file_operations_done ==
    /\ file_ops.pc = "run"
    /\ file_ops.index > Len(file_ops.operations)
    /\ file_ops' = [file_ops EXCEPT !.pc = "done", !.finished = @ + 1]
    /\ FileOpsFrame

FileOpsNext ==
    \/ file_operation
    \/ file_operations_done

FileOpsSpec == FileOpsInit /\ [][FileOpsNext]_vars

(* ------------------------------ UnzipRunner --------------------------- *)

\* The largest number of members of an archive and the largest member size.
MaxEntries == 2

MaxEntrySize == 1

\* str.lower on one character of the paths below.
LowerChar(c) ==
    IF c = "Z" THEN "z" ELSE IF c = "I" THEN "i" ELSE IF c = "P" THEN "p" ELSE c

\* str.lower
lower(str) == [ i \in 1..Len(str) |-> LowerChar(str[i]) ]

\* str.endswith on strings held as sequences of characters
str_endswith(str, suffix) ==
    /\ Len(str) >= Len(suffix)
    /\ SubSeq(str, Len(str) - Len(suffix) + 1, Len(str)) = suffix

\* A test that looks for '.zip' anywhere in the path.
IsZipPathAnywhere(zip_path) ==
    \E i \in 1..Len(zip_path) :
       str_endswith(SubSeq(lower(zip_path), 1, i), <<".", "z", "i", "p">>)

\* self.zip_path.lower().endswith('.zip')
IsZipPath(zip_path) == str_endswith(lower(zip_path), <<".", "z", "i", "p">>)

\* The paths an UnzipRunner is given: a.zip, a.ZIP, a.Zip, a.iso, zip,
\* a.zip.part, and the empty path.
ZipPaths ==
    { <<"a", ".", "z", "i", "p">>, <<"a", ".", "Z", "I", "P">>, <<"a", ".", "Z", "i", "p">>,
      <<"a", ".", "i", "s", "o">>, <<"z", "i", "p">>,
      <<"a", ".", "z", "i", "p", ".", "p", "a", "r", "t">>, <<>> }

\* zip_ref.infolist(): members with distinct names, each with its file_size.
InfoLists ==
    UNION { { l \in [1..n -> [filename : {"f", "g"}, file_size : 0..MaxEntrySize]] :
                \A i, j \in 1..n : i # j => l[i].filename # l[j].filename }
            : n \in 0..MaxEntries }

\* sum([info.file_size for info in zip_ref.infolist()])
RECURSIVE TotalSize(_)
TotalSize(infolist) ==
    IF infolist = <<>> THEN 0 ELSE Head(infolist).file_size + TotalSize(Tail(infolist))

\* UnzipRunner(zip_path, output_path); the file at zip_path is a zip archive
\* with the given members, or not an archive.
UnzipStart(zip_path, is_archive, infolist) ==
    [pc |-> "run", zip_path |-> zip_path, is_archive |-> is_archive,
     infolist |-> infolist, opened |-> FALSE, total_size |-> 0, extracted_size |-> 0,
     index |-> 1, extracted_files |-> <<>>, written |-> {}, progress_signal |-> <<>>,
     finished_signal |-> <<>>, running |-> TRUE]

UnzipInit ==
    /\ PipelineAtRest
    /\ plain = Idle
    /\ multi = Idle
    /\ download = Idle
    /\ splitter = Idle
    /\ file_ops = Idle
    /\ psn = Idle
    /\ ps3 = Idle
    /\ \E zip_path \in ZipPaths : \E is_archive \in BOOLEAN : \E infolist \in InfoLists :
          /\ ~is_archive => infolist = <<>>
          /\ unzip = UnzipStart(zip_path, is_archive, infolist)

UnzipFrame == UNCHANGED <<pipeline_vars, download, splitter, file_ops, psn, ps3, plain, multi>>

\* run() up to the loop: a path that does not end in '.zip' gets
\* finished_signal([]) and nothing else; otherwise zipfile.ZipFile opens the
\* file (BadZipFile when it is no archive) and the sizes are summed.
unzip_run ==
    /\ unzip.pc = "run"
    /\ IF ~IsZipPath(unzip.zip_path)
       THEN unzip' = [unzip EXCEPT !.pc = "done", !.finished_signal = Append(@, <<>>)]
       ELSE IF ~unzip.is_archive
       THEN unzip' = [unzip EXCEPT !.pc = "raised"]
       ELSE unzip' = [unzip EXCEPT !.pc = "loop", !.opened = TRUE,
                                   !.total_size = TotalSize(unzip.infolist)]
    /\ UnzipFrame

\* A loop that never looks at the flag.
BreaksNever(running) == FALSE

\* if not self.running: break
Breaks(running) == ~running

\* One turn of the loop: break when self.running is False; otherwise the
\* member is extracted and reported, and the progress is emitted
\* (ZeroDivisionError when total_size is 0).
unzip_extract ==
    /\ unzip.pc = "loop"
    /\ unzip.index <= Len(unzip.infolist)
    /\ IF Breaks(unzip.running)
       THEN unzip' = [unzip EXCEPT !.pc = "after_loop"]
       ELSE LET info == unzip.infolist[unzip.index]
                extracted_size == unzip.extracted_size + info.file_size
                extracted == [unzip EXCEPT
                                !.written = @ \cup {info.filename},
                                !.extracted_files = Append(@, info.filename),
                                !.extracted_size = extracted_size]
            IN  IF unzip.total_size = 0
                THEN unzip' = [extracted EXCEPT !.pc = "raised"]
                ELSE unzip' = [extracted EXCEPT
                                 !.progress_signal =
                                    Append(@, (extracted_size * 100) \div unzip.total_size),
                                 !.index = @ + 1]
    /\ UnzipFrame

\* The loop has run through the members.
unzip_loop_end ==
    /\ unzip.pc = "loop"
    /\ unzip.index > Len(unzip.infolist)
    /\ unzip' = [unzip EXCEPT !.pc = "after_loop"]
    /\ UnzipFrame

\* self.finished_signal.emit(self.extracted_files)
unzip_emit_finished ==
    /\ unzip.pc = "after_loop"
    /\ unzip' = [unzip EXCEPT !.pc = "done",
                              !.finished_signal = Append(@, unzip.extracted_files)]
    /\ UnzipFrame

\* UnzipRunner.stop
UnzipRunner_stop ==
    /\ unzip.pc \in {"run", "loop"}
    /\ unzip.running
    /\ unzip' = [unzip EXCEPT !.running = FALSE]
    /\ UnzipFrame

UnzipNext ==
    \/ unzip_run
    \/ unzip_extract
    \/ unzip_loop_end
    \/ unzip_emit_finished
    \/ UnzipRunner_stop

UnzipSpec == UnzipInit /\ [][UnzipNext]_vars

(* ------------------------------- PSN item ----------------------------- *)

\* The largest number of files in a PSN archive.
MaxExtracted == 2

\* The names the files of a PSN archive are drawn from.
PsnNames ==
    {Name("base", ".pkg"), Name("x", ".pkg"), Name("x", ".PKG"),
     Name("x", ".rap"), Name("x", ".txt")}

\* The lists of extracted files the UnzipRunner can report: distinct paths
\* of the processing directory, in archive order.
ExtractedLists ==
    UNION { { f \in [1..n -> { Path(processing_dir, m) : m \in PsnNames }] :
                \A i, j \in 1..n : i # j => f[i] # f[j] } : n \in 0..MaxExtracted }

\* os.path.join(self.processing_dir, f"{base_name}.pkg") and f"{base_name}.zip"
PsnPkgPath == Path(processing_dir, Name("base", ".pkg"))

PsnZipPath == Path(processing_dir, Name("base", ".zip"))

\* os.rename(src, dst) on the set fs of paths that exist: on Windows it
\* raises FileExistsError when dst is another existing file; elsewhere dst is
\* replaced.
os_rename(src, dst, fs, windows) ==
    IF src \notin fs THEN [ok |-> FALSE, fs |-> fs]
    ELSE IF windows /\ dst \in fs /\ dst # src THEN [ok |-> FALSE, fs |-> fs]
    ELSE [ok |-> TRUE, fs |-> (fs \ {src}) \cup {dst}]

\* split_pkg: a SplitPkgThread is started and waited for.  A file of the
\* split size or more is written as {stem}.pkg.666NN parts (two of them
\* here) into the current directory and the file itself is removed.
split_pkg(pkg_file, fs, big) ==
    IF big
    THEN (fs \ {pkg_file})
         \cup { Path("cwd", Name(pkg_file.name.stem, e)) : e \in {".pkg.66600", ".pkg.66601"} }
    ELSE fs

\* glob.glob(f"{new_file_path}.666*")
glob_parts(new_file_path, fs) ==
    { f \in fs : /\ f.dir = new_file_path.dir
                 /\ f.name.stem = new_file_path.name.stem
                 /\ f.name.ext \in {".pkg.66600", ".pkg.66601"} }

Move(src, dst) == [type |-> "move", src |-> src, dst |-> dst]

Remove(src) == [type |-> "remove", src |-> src, dst |-> "-"]

\* The set as a list, in some order.
RECURSIVE ListOf(_)
ListOf(S) ==
    IF S = {} THEN <<>>
    ELSE LET x == CHOOSE y \in S : TRUE IN <<x>> \o ListOf(S \ {x})

\* The operations handle_psn_files appends for one renamed .pkg.
PkgOperations(new_file_path, fs, split, keep_unsplit_pkg) ==
    LET split_parts == glob_parts(new_file_path, fs)
        whole == Move(new_file_path, Path("output", basename(new_file_path)))
    IN  IF split /\ split_parts # {}
        THEN [ i \in 1..Cardinality(split_parts) |->
                 Move(ListOf(split_parts)[i],
                      Path("output", basename(ListOf(split_parts)[i]))) ]
             \o (IF keep_unsplit_pkg THEN <<whole>> ELSE <<Remove(new_file_path)>>)
        ELSE <<whole>>

\* The loop of handle_psn_files over the extracted files: a .pkg is renamed
\* at once to {base}.pkg in the processing directory (an exception of
\* os.rename ends the handler), split when the check box asks for it, and
\* its operations are appended; a .rap gets a move into the licence
\* directory; any other file is left alone.
RECURSIVE PsnLoop(_, _, _, _)
PsnLoop(files, fs, operations, in) ==
    IF files = <<>> THEN [raised |-> FALSE, fs |-> fs, operations |-> operations]
    ELSE LET file == Head(files)
         IN  IF endswith(file.name, ".pkg")
             THEN LET renamed == os_rename(file, PsnPkgPath, fs, in.windows)
                      after == IF in.split THEN split_pkg(PsnPkgPath, renamed.fs, in.big)
                               ELSE renamed.fs
                  IN  IF ~renamed.ok
                      THEN [raised |-> TRUE, fs |-> fs, operations |-> operations]
                      ELSE PsnLoop(Tail(files), after,
                                   operations \o PkgOperations(PsnPkgPath, after, in.split,
                                                               in.keep_unsplit_pkg),
                                   in)
             ELSE IF endswith(file.name, ".rap")
             THEN PsnLoop(Tail(files), fs,
                          Append(operations, Move(file, Path("exdata", basename(file)))),
                          in)
             ELSE PsnLoop(Tail(files), fs, operations, in)

\* FileOperationsThread.run on a whole list: the file system afterwards and,
\* for each operation, whether it was performed.
RECURSIVE RunOperations(_, _)
RunOperations(operations, fs) ==
    IF operations = <<>> THEN [fs |-> fs, ok |-> <<>>]
    ELSE LET done == Perform(Head(operations), fs)
             rest == RunOperations(Tail(operations), done.fs)
         IN  [fs |-> rest.fs, ok |-> <<done.ok>> \o rest.ok]

PsnInputs ==
    [windows : BOOLEAN, split : BOOLEAN, big : BOOLEAN, keep_unsplit_pkg : BOOLEAN]

PsnInit ==
    /\ PipelineAtRest
    /\ plain = Idle
    /\ multi = Idle
    /\ download = Idle
    /\ splitter = Idle
    /\ file_ops = Idle
    /\ unzip = Idle
    /\ ps3 = Idle
    /\ \E extracted_files \in ExtractedLists : \E in \in PsnInputs :
          /\ in.big => in.split
          /\ psn = [pc |-> "extracted", extracted_files |-> extracted_files, in |-> in,
                    fs |-> { extracted_files[i] : i \in 1..Len(extracted_files) }
                           \cup {PsnZipPath},
                    operations |-> <<>>, ok |-> <<>>, dequeued |-> FALSE]

PsnFrame == UNCHANGED <<pipeline_vars, download, splitter, file_ops, unzip, ps3, plain, multi>>

\* handle_psn_files, from the finished_signal of the UnzipRunner to the start
\* of the FileOperationsThread: the loop, then the removal of the staged zip
\* when it exists.
handle_psn_files ==
    /\ psn.pc = "extracted"
    /\ LET loop == PsnLoop(psn.extracted_files, psn.fs, <<>>, psn.in)
       IN  IF loop.raised
           THEN psn' = [psn EXCEPT !.pc = "raised", !.fs = loop.fs,
                                   !.operations = loop.operations]
           ELSE psn' = [psn EXCEPT !.pc = "file_operations_thread", !.fs = loop.fs,
                                   !.operations =
                                      loop.operations
                                      \o (IF PsnZipPath \in loop.fs
                                          THEN <<Remove(PsnZipPath)>> ELSE <<>>)]
    /\ PsnFrame

\* The FileOperationsThread runs the list and emits finished_signal.
psn_file_operations_thread ==
    /\ psn.pc = "file_operations_thread"
    /\ LET run == RunOperations(psn.operations, psn.fs)
       IN  psn' = [psn EXCEPT !.pc = "finished_signal", !.fs = run.fs, !.ok = run.ok]
    /\ PsnFrame

\* psn_file_operations_finished: takeItem(0), then process_next_item.
psn_file_operations_finished ==
    /\ psn.pc = "finished_signal"
    /\ psn' = [psn EXCEPT !.pc = "done", !.dequeued = TRUE]
    /\ PsnFrame

PsnNext ==
    \/ handle_psn_files
    \/ psn_file_operations_thread
    \/ psn_file_operations_finished

PsnSpec == PsnInit /\ [][PsnNext]_vars

(* ------------------------------- PS3 item ----------------------------- *)

\* The names the files of a PS3 archive are drawn from.
Ps3Names == {Name("base", ".iso"), Name("base", ".ISO"), Name("x", ".txt")}

Ps3ExtractedLists ==
    UNION { { f \in [1..n -> { Path(processing_dir, m) : m \in Ps3Names }] :
                \A i, j \in 1..n : i # j => f[i] # f[j] } : n \in 0..MaxExtracted }

\* for file in extracted_files: if file.endswith('.iso'): iso_file = file
RECURSIVE IsoFile(_, _)
IsoFile(files, found) ==
    IF files = <<>> THEN found
    ELSE IsoFile(Tail(files),
                 IF endswith(Head(files).name, ".iso") THEN Head(files) ELSE found)

DkeyPath == Path(processing_dir, Name("base", ".dkey"))

Ps3ZipPath == Path(processing_dir, Name("base", ".zip"))

\* os.path.splitext(path)[0], as a name
splitext_root(name) ==
    IF name.ext = ".iso.dec" THEN name.stem \o ".iso"
    ELSE IF name.ext = ".iso_decrypted.iso" THEN name.stem \o ".iso_decrypted"
    ELSE name.stem

\* The parts SplitIsoThread writes next to a file of more than the split size
\* and at most twice it; a file of the split size gets the first of them only.
IsoParts(file_path) ==
    << Path(file_path.dir, Name(splitext_root(file_path.name), ".iso.0")),
       Path(file_path.dir, Name(splitext_root(file_path.name), ".iso.1")) >>

\* A run() that emits finished whatever the return code.
EmitsFinishedAlways(returncode) == TRUE

\* if process.returncode != 0: raise subprocess.CalledProcessError(...)
\* self.finished.emit()
EmitsFinished(returncode) == returncode = 0

\* The operation list of finalize_ps3_files; current_index is the tab shown
\* when it runs.
FinalizeOperations(iso_file, split_files, in, fs, current_index) ==
    LET output_dir == OutputDir(current_index)
        iso == IF split_files # <<>>
               THEN [ i \in 1..Len(split_files) |->
                        Move(split_files[i], Path(output_dir, basename(split_files[i]))) ]
                    \o (IF ~in.keep_unsplit_dec /\ iso_file # NoPath
                        THEN <<Remove(iso_file)>> ELSE <<>>)
               ELSE <<Move(iso_file, Path(output_dir, basename(iso_file)))>>
        dkey == IF in.keep_dkey /\ DkeyPath \in fs
                THEN <<Move(DkeyPath, Path(output_dir, basename(DkeyPath)))>>
                ELSE IF DkeyPath \in fs THEN <<Remove(DkeyPath)>> ELSE <<>>
        zip == IF Ps3ZipPath \in fs THEN <<Remove(Ps3ZipPath)>> ELSE <<>>
    IN  iso \o dkey \o zip

\* A size test that passes only above the split size.
AboveSplitSize(size) == size > ChunkSize

\* os.path.getsize(iso_file) >= 4294967295
AtLeastSplitSize(size) == size >= ChunkSize

\* The sizes of the ISO after_decryption looks at: one byte short of the split
\* size, the split size, and one byte more.
IsoSizes == (ChunkSize - 1)..(ChunkSize + 1)

Ps3Inputs ==
    [windows : BOOLEAN, decrypt : BOOLEAN, keep_dkey : BOOLEAN, keep_enc : BOOLEAN,
     split : BOOLEAN, keep_unsplit_dec : BOOLEAN, size : IsoSizes, big : BOOLEAN,
     catalog : Tabs]

Ps3Start(extracted_files, dkey_present, in) ==
    [pc |-> "extracted", last |-> "none", in |-> in,
     extracted_files |-> extracted_files, iso_file |-> NoPath,
     fs |-> { extracted_files[i] : i \in 1..Len(extracted_files) }
            \cup {Ps3ZipPath} \cup (IF dkey_present THEN {DkeyPath} ELSE {}),
     dkey_before |-> dkey_present, dkey_requested |-> FALSE,
     returncode |-> -1, finished |-> 0, at_runner_start |-> {},
     decrypted |-> "none", iso_removed |-> FALSE, decrypted_at |-> NoPath,
     missing |-> {}, current_index |-> -1, split_files |-> <<>>,
     operations |-> <<>>, ok |-> <<>>, dequeued |-> FALSE]

Ps3Init ==
    /\ PipelineAtRest
    /\ plain = Idle
    /\ multi = Idle
    /\ download = Idle
    /\ splitter = Idle
    /\ file_ops = Idle
    /\ unzip = Idle
    /\ psn = Idle
    /\ \E extracted_files \in Ps3ExtractedLists : \E dkey_present \in BOOLEAN :
       \E in \in Ps3Inputs :
          /\ in.keep_unsplit_dec => in.split
          /\ in.big <=> AtLeastSplitSize(in.size)
          /\ ps3 = Ps3Start(extracted_files, dkey_present, in)

Ps3Frame == UNCHANGED <<pipeline_vars, download, splitter, file_ops, unzip, psn, plain, multi>>

\* The handler ends as `next` says (see Continue); when it ends in
\* finalize_ps3_files, the operation list is built for the tab shown.
Ps3Continue(next, r, current_index) ==
    IF next = "raise" THEN [r EXCEPT !.pc = "raised"]
    ELSE IF next = "return" THEN [r EXCEPT !.pc = "returned"]
    ELSE IF next = "file_operations_thread"
    THEN [r EXCEPT !.pc = next, !.current_index = current_index,
                   !.operations = FinalizeOperations(r.iso_file, r.split_files, r.in,
                                                     r.fs, current_index)]
    ELSE IF next = "runner" THEN [r EXCEPT !.pc = next, !.at_runner_start = r.fs]
    ELSE [r EXCEPT !.pc = next]

\* handle_ps3_files, from the finished_signal of the UnzipRunner.
ps3_handle_files ==
    /\ ps3.pc = "extracted"
    /\ \E current_index \in Tabs :
          LET iso_file == IsoFile(ps3.extracted_files, NoPath)
              dkey_present == DkeyPath \in ps3.fs
              next == handle_ps3_files(iso_file # NoPath, dkey_present, ps3.in.decrypt,
                                       ps3.in.keep_dkey, ps3.in.split, ps3.in.big,
                                       current_index)
              r == [ps3 EXCEPT
                      !.last = "handle_ps3_files",
                      !.iso_file = iso_file,
                      !.dkey_requested = (next = "dkey_download_thread"),
                      !.missing = (IF iso_file = NoPath THEN {"iso"} ELSE {})
                                  \cup (IF ~dkey_present /\ next # "dkey_download_thread"
                                        THEN {"dkey"} ELSE {})]
          IN  ps3' = Ps3Continue(next, r, current_index)
    /\ Ps3Frame

\* The DownloadThread of the key archive ends and after_dkey_download runs:
\* the archive is complete or not, and a complete one holds {base}.dkey or
\* does not.
ps3_after_dkey_download ==
    /\ ps3.pc = "dkey_download_thread"
    /\ \E complete, has_dkey \in BOOLEAN : \E current_index \in Tabs :
          LET fs == IF complete /\ has_dkey THEN ps3.fs \cup {DkeyPath} ELSE ps3.fs
              dkey_file == DkeyPath \in fs
              next == after_dkey_download(IF complete THEN "valid" ELSE "invalid",
                                          ps3.iso_file # NoPath, ps3.in.decrypt, dkey_file,
                                          ps3.in.split, ps3.in.big, current_index)
              r == [ps3 EXCEPT
                      !.last = "after_dkey_download",
                      !.fs = fs,
                      !.missing = @ \cup (IF complete /\ ~dkey_file THEN {"dkey"} ELSE {})]
          IN  /\ ~complete => ~has_dkey
              /\ ps3' = Ps3Continue(next, r, current_index)
    /\ Ps3Frame

\* CommandRunner.run: ps3dec ends with a return code, having written its
\* output file or not.
ps3_runner ==
    /\ ps3.pc = "runner"
    /\ \E returncode \in {0, 1} : \E output \in BOOLEAN :
          ps3' = [ps3 EXCEPT
                    !.last = "runner",
                    !.returncode = returncode,
                    !.fs = IF output THEN @ \cup {decrypted_iso(ps3.in.windows)} ELSE @,
                    !.finished = IF EmitsFinished(returncode) THEN @ + 1 ELSE @,
                    !.pc = IF EmitsFinished(returncode) THEN "decryption_finished"
                           ELSE "raised"]
    /\ Ps3Frame

\* decryption_finished, the slot of CommandRunner.finished.
ps3_decryption_finished ==
    /\ ps3.pc = "decryption_finished"
    /\ IF decrypted_iso(ps3.in.windows) \in ps3.fs
       THEN \E current_index \in Tabs :
               LET files == DecryptionFiles(ps3.in.windows, ps3.in.keep_enc,
                                            ps3.iso_file, ps3.fs)
                   r == [ps3 EXCEPT
                           !.last = "decryption_finished",
                           !.decrypted = "found",
                           !.fs = files.fs,
                           !.iso_removed = files.iso_removed,
                           !.decrypted_at = files.decrypted_at,
                           !.iso_file = IF files.raised THEN @
                                        ELSE final_iso(ps3.in.keep_enc)]
               IN  ps3' = Ps3Continue(IF files.raised THEN "raise"
                                      ELSE after_decryption(TRUE, ps3.in.split, ps3.in.big,
                                                            current_index),
                                      r, current_index)
       ELSE ps3' = [ps3 EXCEPT !.last = "decryption_finished",
                               !.decrypted = "missing",
                               !.missing = @ \cup {"decrypted"},
                               !.pc = "abandoned", !.dequeued = TRUE]
    /\ Ps3Frame

\* SplitIsoThread.run on the ISO of the split size or more, then
\* splitting_finished, the slot of its finished signal.
ps3_splitting_finished ==
    /\ ps3.pc = "split_iso_thread"
    /\ \E current_index \in Tabs :
          LET parts == SubSeq(IsoParts(ps3.iso_file), 1,
                              NumParts(ps3.in.size, ChunkSize))
              r == [ps3 EXCEPT
                      !.last = "splitting_finished",
                      !.fs = @ \cup { parts[i] : i \in 1..Len(parts) },
                      !.split_files = parts]
          IN  ps3' = Ps3Continue(finalize_ps3_files(TRUE, TRUE, current_index), r,
                                 current_index)
    /\ Ps3Frame

\* The FileOperationsThread runs the list and emits finished_signal.
ps3_file_operations_thread ==
    /\ ps3.pc = "file_operations_thread"
    /\ LET run == RunOperations(ps3.operations, ps3.fs)
       IN  ps3' = [ps3 EXCEPT !.last = "file_operations_thread",
                              !.pc = "finished_signal", !.fs = run.fs, !.ok = run.ok]
    /\ Ps3Frame

\* ps3_file_operations_finished: takeItem(0), then process_next_item.
ps3_file_operations_finished ==
    /\ ps3.pc = "finished_signal"
    /\ ps3' = [ps3 EXCEPT !.last = "ps3_file_operations_finished",
                          !.pc = "completed", !.dequeued = TRUE]
    /\ Ps3Frame

Ps3Next ==
    \/ ps3_handle_files
    \/ ps3_after_dkey_download
    \/ ps3_runner
    \/ ps3_decryption_finished
    \/ ps3_splitting_finished
    \/ ps3_file_operations_thread
    \/ ps3_file_operations_finished

Ps3Spec == Ps3Init /\ [][Ps3Next]_vars

(* --------------------------- multi-file item -------------------------- *)

\* The largest k for which {output}/{base}_k may exist beforehand.
MaxSuffix == 2

Digit == <<"0", "1", "2", "3", "4", "5", "6", "7", "8", "9">>

\* str(count) of the f-string, as text
RECURSIVE str_int(_)
str_int(i) == IF i < 10 THEN Digit[i + 1] ELSE str_int(i \div 10) \o Digit[(i % 10) + 1]

\* os.path.join(a, b)
os_path_join(a, b) == a \o "/" \o b

\* The directories are mapped to the names of the files in them; a path
\* exists when it is one of them.
os_path_exists(path, tree) == path \in DOMAIN tree

MultiOutputDir == "output"

\* extract_dir = os.path.join(self.processing_dir, base_name)
ExtractDir == os_path_join(processing_dir, "base")

\* The zip of the item, in the processing directory.
MultiZipPath == os_path_join(processing_dir, "base.zip")

\* The directories {output}/{base} and {output}/{base}_k that may exist
\* before the item is processed.
Candidates ==
    {os_path_join(MultiOutputDir, "base")}
    \cup { os_path_join(MultiOutputDir, "base") \o "_" \o str_int(k) : k \in 1..MaxSuffix }

\* The while loop of handle_extracted_folder, from `count` on.
RECURSIVE NewDestDir(_, _, _)
NewDestDir(dest_dir, count, tree) ==
    LET new_dest_dir == dest_dir \o "_" \o str_int(count)
    IN  IF os_path_exists(new_dest_dir, tree)
        THEN NewDestDir(dest_dir, count + 1, tree)
        ELSE new_dest_dir

\* A choice of destination that does not look at what exists.
DestDirUnchecked(output_dir, base_name, tree) == os_path_join(output_dir, base_name)

\* dest_dir of handle_extracted_folder after "Handle potential naming
\* conflicts".
DestDir(output_dir, base_name, tree) ==
    LET dest_dir == os_path_join(output_dir, base_name)
    IN  IF os_path_exists(dest_dir, tree) THEN NewDestDir(dest_dir, 1, tree)
        ELSE dest_dir

\* os.path.basename of a path of this model.
path_basename(path) ==
    IF path = ExtractDir THEN "base" ELSE IF path = MultiZipPath THEN "base.zip" ELSE path

\* One operation of FileOperationsThread.run on directories and the zip:
\* shutil.move renames src to dst, or to dst/basename(src) when dst is an
\* existing directory (an error when that exists too); shutil.rmtree or
\* os.remove for 'remove'.  An exception is caught by run().
PerformOnTree(operation, tree, zip) ==
    IF operation.type = "move"
    THEN LET real_dst == IF os_path_exists(operation.dst, tree)
                         THEN os_path_join(operation.dst, path_basename(operation.src))
                         ELSE operation.dst
         IN  IF ~os_path_exists(operation.src, tree) \/ os_path_exists(real_dst, tree)
             THEN [tree |-> tree, zip |-> zip, ok |-> FALSE]
             ELSE [tree |-> [ d \in (DOMAIN tree \ {operation.src}) \cup {real_dst} |->
                                IF d = real_dst THEN tree[operation.src] ELSE tree[d] ],
                   zip |-> zip, ok |-> TRUE]
    ELSE IF operation.src = MultiZipPath
    THEN [tree |-> tree, zip |-> FALSE, ok |-> zip]
    ELSE [tree |-> [ d \in DOMAIN tree \ {operation.src} |-> tree[d] ], zip |-> zip,
          ok |-> os_path_exists(operation.src, tree)]

RECURSIVE RunOnTree(_, _, _)
RunOnTree(operations, tree, zip) ==
    IF operations = <<>> THEN [tree |-> tree, zip |-> zip, ok |-> <<>>]
    ELSE LET done == PerformOnTree(Head(operations), tree, zip)
             rest == RunOnTree(Tail(operations), done.tree, done.zip)
         IN  [tree |-> rest.tree, zip |-> rest.zip, ok |-> <<done.ok>> \o rest.ok]

\* The item's zip is staged; some of the candidate directories exist, each
\* holding an earlier result, and the extraction directory may be left over
\* from an earlier run.
MultiInit ==
    /\ PipelineAtRest
    /\ download = Idle
    /\ splitter = Idle
    /\ file_ops = Idle
    /\ unzip = Idle
    /\ psn = Idle
    /\ ps3 = Idle
    /\ plain = Idle
    /\ \E existing \in SUBSET Candidates : \E left_over \in BOOLEAN :
       \E entries \in SUBSET {"f", "g"} :
          LET tree == [ d \in existing \cup (IF left_over THEN {ExtractDir} ELSE {}) |->
                          IF d = ExtractDir THEN {"left"} ELSE {"old"} ]
          IN  multi = [pc |-> "downloaded", entries |-> entries, before |-> tree,
                       tree |-> tree, zip |-> TRUE, output_path |-> "-",
                       at_choice |-> tree, dest_dir |-> "-", operations |-> <<>>,
                       ok |-> <<>>, dequeued |-> FALSE]

MultiFrame ==
    UNCHANGED <<pipeline_vars, download, splitter, file_ops, unzip, psn, ps3, plain>>

\* after_download starts UnzipRunner(file_path, extract_dir), which extracts
\* every entry under extract_dir and emits finished_signal.
multi_unzip_runner ==
    /\ multi.pc = "downloaded"
    /\ LET output_path == ExtractDir
           old == IF os_path_exists(output_path, multi.tree)
                  THEN multi.tree[output_path] ELSE {}
       IN  multi' = [multi EXCEPT
                       !.pc = "extracted",
                       !.output_path = output_path,
                       !.tree = IF multi.entries = {} THEN @
                                ELSE [ d \in DOMAIN @ \cup {output_path} |->
                                         IF d = output_path THEN old \cup multi.entries
                                         ELSE @[d] ]]
    /\ MultiFrame

\* handle_extracted_folder, up to the start of the FileOperationsThread.
handle_extracted_folder ==
    /\ multi.pc = "extracted"
    /\ LET dest_dir == DestDir(MultiOutputDir, "base", multi.tree)
       IN  multi' = [multi EXCEPT
                       !.pc = "file_operations_thread",
                       !.at_choice = multi.tree,
                       !.dest_dir = dest_dir,
                       !.operations = <<Move(ExtractDir, dest_dir)>>
                                      \o (IF multi.zip THEN <<Remove(MultiZipPath)>>
                                          ELSE <<>>)]
    /\ MultiFrame

\* The FileOperationsThread runs the list and emits finished_signal.
multi_file_operations_thread ==
    /\ multi.pc = "file_operations_thread"
    /\ LET run == RunOnTree(multi.operations, multi.tree, multi.zip)
       IN  multi' = [multi EXCEPT !.pc = "finished_signal", !.tree = run.tree,
                                  !.zip = run.zip, !.ok = run.ok]
    /\ MultiFrame

\* multi_file_operations_finished: takeItem(0), then process_next_item.
multi_file_operations_finished ==
    /\ multi.pc = "finished_signal"
    /\ multi' = [multi EXCEPT !.pc = "done", !.dequeued = TRUE]
    /\ MultiFrame

MultiNext ==
    \/ multi_unzip_runner
    \/ handle_extracted_folder
    \/ multi_file_operations_thread
    \/ multi_file_operations_finished

MultiSpec == MultiInit /\ [][MultiNext]_vars

(* ------------------------------ plain item ---------------------------- *)

\* The names the files of a plain archive are drawn from, and the extensions
\* a catalog declares.
PlainNames ==
    {Name("base", ".iso"), Name("x", ".iso"), Name("x", ".ISO"), Name("x", ".txt")}

FileExtensions == {".iso", ".txt"}

\* The lists of extracted files the UnzipRunner can report (the empty list
\* when it was stopped before the first entry).
PlainExtractedLists ==
    UNION { { f \in [1..n -> { Path(processing_dir, m) : m \in PlainNames }] :
                \A i, j \in 1..n : i # j => f[i] # f[j] } : n \in 0..MaxExtracted }

PlainZipPath == Path(processing_dir, Name("base", ".zip"))

Rename(src, dst) == [type |-> "rename", src |-> src, dst |-> dst]

\* A comparison of the extension that ignores the letter case.
MatchesAnyCase(file, file_extension) ==
    \/ endswith(file.name, file_extension)
    \/ file.name.ext = ".ISO" /\ file_extension = ".iso"

\* if file.endswith(file_extension)
Matches(file, file_extension) == endswith(file.name, file_extension)

\* A list with the removal of the zip in front.
PlainOperationsZipFirst(extracted_files, file_extension, fs) ==
    LET new_file_path == Path(processing_dir, Name("base", file_extension))
        dst == Path("output", basename(new_file_path))
        RECURSIVE loop(_)
        loop(files) ==
            IF files = <<>> THEN <<>>
            ELSE (IF Matches(Head(files), file_extension)
                  THEN <<Rename(Head(files), new_file_path), Move(new_file_path, dst)>>
                  ELSE <<>>) \o loop(Tail(files))
    IN  (IF PlainZipPath \in fs THEN <<Remove(PlainZipPath)>> ELSE <<>>)
        \o loop(extracted_files)

\* The operation list of handle_extracted_files: a rename and a move for each
\* extracted file that ends in the extension, then the removal of the zip
\* when it exists.
PlainOperations(extracted_files, file_extension, fs) ==
    LET new_file_path == Path(processing_dir, Name("base", file_extension))
        dst == Path("output", basename(new_file_path))
        RECURSIVE loop(_)
        loop(files) ==
            IF files = <<>> THEN <<>>
            ELSE (IF Matches(Head(files), file_extension)
                  THEN <<Rename(Head(files), new_file_path), Move(new_file_path, dst)>>
                  ELSE <<>>) \o loop(Tail(files))
    IN  loop(extracted_files)
        \o (IF PlainZipPath \in fs THEN <<Remove(PlainZipPath)>> ELSE <<>>)

\* The UnzipRunner has emitted finished_signal with its list; the files of
\* the list and the zip are in the processing directory.
PlainInit ==
    /\ PipelineAtRest
    /\ download = Idle
    /\ splitter = Idle
    /\ file_ops = Idle
    /\ unzip = Idle
    /\ psn = Idle
    /\ ps3 = Idle
    /\ multi = Idle
    /\ \E extracted_files \in PlainExtractedLists : \E file_extension \in FileExtensions :
          plain = [pc |-> "extracted", extracted_files |-> extracted_files,
                   file_extension |-> file_extension,
                   fs |-> { extracted_files[i] : i \in 1..Len(extracted_files) }
                          \cup {PlainZipPath},
                   operations |-> <<>>, index |-> 1, ok |-> <<>>,
                   ready |-> FALSE, dequeued |-> FALSE]

PlainFrame ==
    UNCHANGED <<pipeline_vars, download, splitter, file_ops, unzip, psn, ps3, multi>>

\* handle_extracted_files, up to the start of the FileOperationsThread.
handle_extracted_files ==
    /\ plain.pc = "extracted"
    /\ plain' = [plain EXCEPT
                   !.pc = "file_operations_thread",
                   !.operations = PlainOperations(plain.extracted_files,
                                                  plain.file_extension, plain.fs)]
    /\ PlainFrame

\* One turn of the loop of FileOperationsThread.run.
plain_file_operation ==
    /\ plain.pc = "file_operations_thread"
    /\ plain.index <= Len(plain.operations)
    /\ LET done == Perform(plain.operations[plain.index], plain.fs)
       IN  plain' = [plain EXCEPT
                       !.fs = done.fs,
                       !.ok = Append(@, done.ok),
                       !.index = NextOperation(plain.index, done.ok,
                                               Len(plain.operations))]
    /\ PlainFrame

\* The loop is over: finished_signal is emitted.
plain_file_operations_done ==
    /\ plain.pc = "file_operations_thread"
    /\ plain.index > Len(plain.operations)
    /\ plain' = [plain EXCEPT !.pc = "finished_signal"]
    /\ PlainFrame

\* file_operations_finished: "{base} ready!", takeItem(0), then
\* process_next_item.
plain_file_operations_finished ==
    /\ plain.pc = "finished_signal"
    /\ plain' = [plain EXCEPT !.pc = "done", !.ready = TRUE, !.dequeued = TRUE]
    /\ PlainFrame

PlainNext ==
    \/ handle_extracted_files
    \/ plain_file_operation
    \/ plain_file_operations_done
    \/ plain_file_operations_finished

PlainSpec == PlainInit /\ [][PlainNext]_vars

(* ------------------------------- claims ------------------------------- *)

\* A run is active from start_download until process_next_item finds the
\* queue empty: exactly then the Start button is disabled.
RunActive == app = "running" /\ ~start_button

\* The list queue.txt holds, as __init__ would load it.
Persisted ==
    IF queue_txt.exists THEN PickleLoad(queue_txt.bytes) ELSE [ok |-> FALSE, value |-> <<>>]

\* C1: no stage failure leaves the queue halted with items pending: while a
\* run is active and the queue is not empty, a worker is running whose end
\* will call the dispatcher.
C1_QueueNeverHalted ==
    (RunActive /\ Len(queue_list) > 0) => worker # "none"

\* C2: at every dispatcher takeItem(0) that follows a pipeline, the head of
\* the queue is the item process_next_item started.
C2_DequeuedItemRan ==
    last_op.op = "takeItem" => last_op.flag

\* C3: while a run is active the add and remove buttons stay disabled and no
\* add_to_queue or remove_from_queue executes.
C3_NoEditsDuringRun ==
    RunActive =>
        /\ ~add_to_queue_button
        /\ ~remove_from_queue_button
        /\ last_op.op \notin {"add_to_queue", "remove_from_queue"}

\* C4: after every enqueue, every dequeue (UI removal, dispatcher take) and a
\* graceful shutdown, queue.txt holds the in-memory queue, in order.
C4_PersistedAfterEveryMutation ==
    (\/ last_op.op \in {"add_to_queue", "remove_from_queue", "takeItem"}
     \/ last_op = Op("closeEvent", TRUE))
    => Persisted = [ok |-> TRUE, value |-> queue_list]

\* C5: in every state of the running program, queue.txt holds every item that
\* is in the queue (enqueued, pipeline not completed).
C5_PersistedCoversPending ==
    app = "running" =>
        \A i \in 1..Len(queue_list) :
            /\ Persisted.ok
            /\ \E j \in 1..Len(Persisted.value) : Persisted.value[j] = queue_list[i]

\* C6: at most one pipeline is active and its worker belongs to the head of
\* the queue; Start, the only entry that is no worker's completion, is
\* possible only while no worker runs.
C6_OnePipelineForHead ==
    /\ worker # "none" => (Len(queue_list) > 0 /\ Head(queue_list) = ctx.item)
    /\ (app = "running" /\ start_button) => (worker = "none" /\ ctx = NoCtx)

NoDuplicates ==
    \A i, j \in 1..Len(queue_list) : i # j => queue_list[i] # queue_list[j]

Count(q, item) == Cardinality({ i \in 1..Len(q) : q[i] = item })

\* C7: in every state, adding a selection leaves the pairs already in the
\* queue as they were (the queue stays a prefix of the result, every selected
\* pair that was present occurs as often as before, and the queue does not
\* change at all when every selected pair was present); the queue never
\* holds a pair twice.
C7_ReEnqueueIsNoOp ==
    /\ NoDuplicates
    /\ \A t \in Tabs : \A sel \in Selections(Catalog(t)) :
          LET after == AddSelected(queue_list, sel, t)
          IN  /\ SubSeq(after, 1, Len(queue_list)) = queue_list
              /\ \A i \in DOMAIN sel :
                    Count(queue_list, <<sel[i], t>>) > 0 =>
                        Count(after, <<sel[i], t>>) = Count(queue_list, <<sel[i], t>>)
              /\ (\A i \in DOMAIN sel : Count(queue_list, <<sel[i], t>>) > 0)
                    => after = queue_list

\* An add whose selection held a pair already queued has just run.
C7_Witness ==
    /\ last_op = Op("add_to_queue", TRUE)
    /\ Len(queue_list) >= 1

\* C8: the pipeline started for an item is the one its catalog's flags select
\* by precedence: decryption, then PKG handling, then multiple extensions,
\* else plain.
C8_PipelineByPrecedence ==
    ctx.pipeline # "none" =>
        /\ HasSystem(ctx.item[2])
        /\ LET f == systems_data[ctx.item[2]]
           IN  /\ f.requires_decryption => ctx.pipeline = "ps3_iso"
               /\ (~f.requires_decryption /\ f.requires_pkg_handling)
                     => ctx.pipeline = "psn_pkg"
               /\ (~f.requires_decryption /\ ~f.requires_pkg_handling
                     /\ f.has_multiple_extensions) => ctx.pipeline = "multi_file"
               /\ (~f.requires_decryption /\ ~f.requires_pkg_handling
                     /\ ~f.has_multiple_extensions) => ctx.pipeline = "plain"

\* A pipeline runs for an item whose catalog sets all three flags.
C8_Witness ==
    /\ worker # "none"
    /\ HasSystem(ctx.item[2])
    /\ systems_data[ctx.item[2]] = FlagsOf(7)
    /\ ctx.pipeline = "ps3_iso"

\* C9: the list loaded by a start that follows a graceful shutdown is the
\* list the shutdown saved, in the same order, and what a save writes loads
\* back as the list saved.
C9_SaveLoadRoundTrip ==
    [][/\ (last_op = Op("closeEvent", TRUE) /\ last_op'.op = "__init__")
            => (app' = "running" /\ queue_list' = queue_list)
       /\ (last_op' = Op("closeEvent", TRUE))
            => (queue_txt'.exists
                /\ PickleLoad(queue_txt'.bytes) = [ok |-> TRUE, value |-> queue_list])]_vars

\* A start has just restored two items from queue.txt.
C9_Witness ==
    /\ last_op = Op("__init__", TRUE)
    /\ Len(queue_list) = 2
    /\ Persisted = [ok |-> TRUE, value |-> queue_list]

\* C10: a start with no queue.txt or with an unreadable one gives a running
\* program with an empty queue.
C10_RestoreNeverFails ==
    (last_op.op = "__init__" /\ ~Persisted.ok) =>
        (app = "running" /\ queue_list = <<>>)

Transient == {"payload", "timeout"}

DownloadEnded == download.pc \in {"skipped", "returned", "raised"}

\* C11: the downloader makes at most Retries attempts; after a transient
\* error the sleep is followed by the next attempt when the attempt was not
\* the last and by the exception leaving download() when it was; completion
\* is signalled only by an attempt that ended without error, never after the
\* retries are used up; and every download ends.
C11_BoundedRetries ==
    /\ [](/\ download.attempts <= Retries
          /\ download.complete => (download.pc = "returned" /\ download.error = "none")
          /\ (download.pc = "raised" /\ download.error \in Transient)
                => (download.attempts = Retries /\ ~download.complete))
    /\ [][(download.pc = "backoff" /\ download'.pc # "backoff") =>
            IF download.attempts < Retries
            THEN download'.pc = "attempt" /\ download'.i = download.i + 1
            ELSE download'.pc = "raised" /\ download'.error = download.error]_vars
    /\ <>DownloadEnded

\* The last attempt allowed was cut and the exception left download().
C11_Witness ==
    /\ download.pc = "raised"
    /\ download.error = "payload"
    /\ download.attempts = Retries
    /\ download.reads > 0

\* C12: the delay slept after failed attempt i is at least 2^i and less than
\* 2^i + 1 seconds (here in units of 2^-MantissaBits seconds), for both kinds
\* of transient error.
C12_BackoffInRange ==
    (download.pc = "backoff" /\ download.error \in Transient) =>
        /\ Pow2(download.i) * Pow2(MantissaBits) <= download.delay
        /\ download.delay < (Pow2(download.i) + 1) * Pow2(MantissaBits)

\* C13: with a staged zip whose size equals the content-length of the HEAD
\* response, downloadhelper starts no DownloadThread, no body is read, the
\* file is as it was and the callback has been called with the zip path.
C13_EqualSizeSkipsDownload ==
    (/\ download.pc # "helper"
     /\ ~download.debug
     /\ download.before.exists
     /\ download.head = "length"
     /\ download.before.size = download.remote)
    => /\ download.pc = "skipped"
       /\ download.callback = "zip"
       /\ download.attempts = 0
       /\ download.reads = 0
       /\ download.written = {}
       /\ download.exists
       /\ download.size = download.before.size

\* downloadhelper has returned for a staged zip of the remote size.
C13_Witness ==
    /\ download.pc = "skipped"
    /\ ~download.debug
    /\ download.head = "length"
    /\ download.before.exists
    /\ download.before.size = download.remote
    /\ download.callback = "zip"

\* C14: a download resumed from a staged zip smaller than the remote file
\* sends, on every attempt, a Range header whose offset is the size of the
\* file at that moment (so the file and the rest of a 206 body add up to the
\* remote size), and when it returns the file has the remote size, whether
\* the server answered 200 or 206.
C14_ResumeReachesRemoteSize ==
    (download.before.exists /\ download.before.size < download.remote) =>
        /\ (download.pc = "body" /\ download.status = 206)
              => (download.range_from >= 0
                  /\ download.size + download.body = download.remote)
        /\ download.pc = "returned" => download.size = download.remote

\* C15: no step of the downloader makes the destination file smaller or
\* removes it, and the destination is the only file it opens for writing.
C15_FileOnlyGrows ==
    [][/\ download'.size >= download.size
       /\ download.exists => download'.exists
       /\ download'.written \subseteq {"filename"}]_vars

\* A later attempt is appending to what earlier attempts and the staged zip
\* left in the file.
C15_Witness ==
    /\ download.pc = "body"
    /\ download.i >= 1
    /\ download.before.exists
    /\ download.before.size >= 1
    /\ download.size >= download.before.size + 2

\* C16: once self.running is False no further chunk is read, and
\* stop_threads sets self.running of the running DownloadThread to False.
C16_StopFlagHonoured ==
    /\ ~download.read_after_stop
    /\ download.stop_threads_called => ~download.running

\* C17: a file below the threshold is never given a part file; when the
\* thread is done the source is still there, status(False) is the only
\* status emitted and SplitIsoThread has emitted finished([]).
C17_SmallFileNotSplit ==
    Len(splitter.file) < ChunkSize =>
        /\ splitter.parts = <<>>
        /\ splitter.split_files = <<>>
        /\ splitter.src_exists
        /\ splitter.pc = "done" =>
              /\ splitter.status = <<FALSE>>
              /\ splitter.progress = <<>>
              /\ splitter.variant = "iso" => splitter.finished = << <<>> >>

\* Both threads are done with a file one byte short of the threshold.
C17_Witness ==
    /\ splitter.pc = "done"
    /\ Len(splitter.file) = ChunkSize - 1
    /\ splitter.status = <<FALSE>>

RECURSIVE Flatten(_)
Flatten(parts) == IF parts = <<>> THEN <<>> ELSE Head(parts) \o Flatten(Tail(parts))

\* The number a suffix denotes.
RECURSIVE SuffixValue(_)
SuffixValue(digits) ==
    IF digits = <<>> THEN 0
    ELSE 10 * SuffixValue(SubSeq(digits, 1, Len(digits) - 1)) + digits[Len(digits)]

\* C18: when a file at or above the threshold has been split, the parts
\* taken in the order of their suffixes 0, 1, 2, ... concatenate to the bytes
\* of the file, every part but the last has ChunkSize bytes and the last has
\* at least one; while the split runs the parts are a prefix of the file.
C18_PartsConcatenateToFile ==
    Len(splitter.file) >= ChunkSize =>
        /\ Len(splitter.split_files) = Len(splitter.parts)
        /\ \A k \in 1..Len(splitter.split_files) :
              SuffixValue(splitter.split_files[k].suffix) = k - 1
        /\ Flatten(splitter.parts) = SubSeq(splitter.file, 1, splitter.pos)
        /\ \A k \in 1..Len(splitter.parts) :
              /\ Len(splitter.parts[k]) >= 1
              /\ k < Len(splitter.parts) => Len(splitter.parts[k]) = ChunkSize
        /\ splitter.pc \in {"after_loop", "done"} =>
              Flatten(splitter.parts) = splitter.file

\* A split into full parts and a last shorter one is done, for the ISO
\* variant.
C18_Witness ==
    /\ splitter.pc = "done"
    /\ splitter.variant = "iso"
    /\ Len(splitter.parts) >= 2
    /\ Len(splitter.parts[Len(splitter.parts)]) < ChunkSize
    /\ Flatten(splitter.parts) = splitter.file

\* The least n with n * b >= a.
CeilDiv(a, b) == CHOOSE n \in 0..a : n * b >= a /\ (n - 1) * b < a

\* C19: a split produces ceil(file size / ChunkSize) parts (one for a file of
\* exactly ChunkSize bytes, two for any size above ChunkSize up to twice it),
\* and the progress messages are "part i/total" for i = 1..total in this
\* order, as many as parts written so far.
C19_PartCountAndProgress ==
    Len(splitter.file) >= ChunkSize =>
        LET total == CeilDiv(Len(splitter.file), ChunkSize)
        IN  /\ Len(splitter.progress) = Len(splitter.parts)
            /\ \A k \in 1..Len(splitter.progress) : splitter.progress[k] = <<k, total>>
            /\ Len(splitter.parts) <= total
            /\ splitter.pc \in {"after_loop", "done"} => Len(splitter.parts) = total
            /\ (splitter.pc = "done" /\ Len(splitter.file) = ChunkSize)
                  => Len(splitter.parts) = 1
            /\ (splitter.pc = "done" /\ Len(splitter.file) > ChunkSize
                                     /\ Len(splitter.file) <= 2 * ChunkSize)
                  => Len(splitter.parts) = 2

\* A PKG a little above the threshold has been split in two.
C19_Witness ==
    /\ splitter.pc = "done"
    /\ splitter.variant = "pkg"
    /\ Len(splitter.file) = ChunkSize + 1
    /\ splitter.progress = << <<1, 2>>, <<2, 2>> >>

\* C20: the operations attempted so far are the first ones of the list, each
\* once and in list order; finished_signal is emitted once, after all of
\* them, and not before; an operation is performed exactly when its source
\* exists at its turn, whatever failed before it, and a failure is reported
\* by an error message for it.
C20_EveryOperationAttempted ==
    /\ Len(file_ops.attempts) <= Len(file_ops.operations)
    /\ \A k \in 1..Len(file_ops.attempts) :
          /\ file_ops.attempts[k].operation = file_ops.operations[k]
          /\ file_ops.attempts[k].ok = file_ops.attempts[k].had_src
          /\ file_ops.progress[2 * k] =
                <<IF file_ops.attempts[k].had_src THEN "performed" ELSE "error",
                  file_ops.operations[k].type>>
    /\ Len(file_ops.progress) = 2 * Len(file_ops.attempts)
    /\ file_ops.finished = IF file_ops.pc = "done" THEN 1 ELSE 0
    /\ file_ops.pc = "done" => Len(file_ops.attempts) = Len(file_ops.operations)

\* Three operations are done: the first failed, the two after it were
\* performed.
C20_Witness ==
    /\ file_ops.pc = "done"
    /\ file_ops.finished = 1
    /\ Len(file_ops.attempts) = 3
    /\ ~file_ops.attempts[1].ok
    /\ file_ops.attempts[2].ok
    /\ file_ops.attempts[3].ok

\* C21: with splitting disabled, every extracted .pkg file is renamed to
\* {base}.pkg and moved unsplit to the output directory, every extracted .rap
\* file is moved to the licence directory, the staged zip is removed as the
\* last operation, and the item is then dequeued.
C21_PkgAndRapDelivered ==
    (~psn.in.split /\ psn.pc \in {"raised", "done"}) =>
        LET n == Len(psn.extracted_files)
            pkgs == { i \in 1..n : psn.extracted_files[i].name.ext = ".pkg" }
            raps == { i \in 1..n : psn.extracted_files[i].name.ext = ".rap" }
            moved == { k \in 1..Len(psn.operations) :
                         psn.operations[k].type = "move" /\ psn.ok[k] }
        IN  /\ psn.pc = "done"
            /\ psn.dequeued
            /\ Cardinality({ k \in moved :
                               psn.operations[k].dst = Path("output", Name("base", ".pkg")) })
                 = Cardinality(pkgs)
            /\ \A i \in raps :
                  Path("exdata", psn.extracted_files[i].name) \in psn.fs
            /\ psn.operations[Len(psn.operations)] = Remove(PsnZipPath)
            /\ PsnZipPath \notin psn.fs

\* The states in which nothing more happens for the item.
Ps3Ended == {"completed", "abandoned", "raised", "returned"}

\* C22: in the PS3-ISO pipeline, whenever a step cannot locate its expected
\* file (no .iso among the extracted files, key file absent, decrypted output
\* missing), the item is abandoned and dequeued, and no unhandled fault is
\* raised.
C22_MissingFileAbandons ==
    (ps3.pc \in Ps3Ended /\ ps3.missing # {}) =>
        (ps3.pc = "abandoned" /\ ps3.dequeued)

\* The place of each worker in the order of the stages of a pipeline.
StageRank ==
    [download_thread |-> 1, unzip_runner |-> 2, dkey_download_thread |-> 3,
     runner |-> 4, split_iso_thread |-> 5, file_operations_thread |-> 6]

\* A step of the running application in which a worker is replaced: inside a
\* pipeline by a worker of a later stage only (the extractor only after the
\* download, decryption and splitting only after the extractor, the file
\* operations only after those), and when an item is taken or nothing was
\* running, by the first worker of a pipeline.
StagesInOrder ==
    (app = "running" /\ app' = "running" /\ worker' \notin {"none", worker}) =>
        IF worker # "none" /\ last_op'.op # "takeItem"
        THEN StageRank[worker'] > StageRank[worker]
        ELSE worker' \in {"download_thread", "unzip_runner"}

\* A handler takes the head of the queue.
HandlerTakesItem == app = "running" /\ app' = "running" /\ last_op'.op = "takeItem"

\* C23 as stated: the stages of one item's pipeline never overlap and run in
\* strict order, and the item is dequeued only after the file operations
\* finished.
C23_DequeuedOnlyAfterFileOperations ==
    [][/\ StagesInOrder
       /\ HandlerTakesItem => worker = "file_operations_thread"]_vars

\* C23, amended: the stages of one item's pipeline never overlap and run in
\* strict order, and a handler dequeues the item only when the file
\* operations have finished or when the decryption tool has finished and left
\* no output (the item is given up).
C23_StagesInOrderThenDequeue ==
    [][/\ StagesInOrder
       /\ HandlerTakesItem => worker \in {"file_operations_thread", "runner"}]_vars

\* The pipeline of a PS3 item has gone through download, extraction and
\* decryption and its file operations are running.
C23_Witness ==
    /\ app = "running"
    /\ worker = "file_operations_thread"
    /\ ctx.pipeline = "ps3_iso" /\ ctx.iso_file /\ ctx.decrypt

\* C24: whenever a started run drains the queue to empty, the position
\* counters are reset to zero and the controls are re-enabled; and every
\* started run eventually reaches that state, unless the application is
\* closed first.
C24_RunEndsWithControlsEnabled ==
    /\ [][(RunActive /\ app' = "running" /\ start_button') =>
             /\ processed_items' = 0 /\ total_items' = 0
             /\ add_to_queue_button' /\ remove_from_queue_button'
             /\ queue_list' = <<>>]_vars
    /\ RunActive ~> (app = "off" \/ (start_button /\ processed_items = 0))

C26_BadStatusFailsAttempt ==
    [][(download.pc = "attempt" /\ download'.attempts = download.attempts + 1
        /\ download'.status \notin {200, 206}) =>
          /\ download'.size = download.size
          /\ download'.exists = download.exists
          /\ download'.written = download.written
          /\ download'.pc \in {"backoff", "raised"}
          /\ download'.body = 0
          /\ ~download'.complete /\ download'.callback = "none"]_vars

\* Status 503 has been answered to a request for the rest of a staged file.
C26_Witness ==
    /\ download.pc = "backoff"
    /\ download.status = 503
    /\ download.error = "payload"
    /\ download.exists /\ download.size > 0

\* The path ends in '.zip' in some letter case.
EndsInZipAnyCase(str) ==
    /\ Len(str) >= 4
    /\ str[Len(str) - 3] = "."
    /\ str[Len(str) - 2] \in {"z", "Z"}
    /\ str[Len(str) - 1] \in {"i", "I"}
    /\ str[Len(str)] \in {"p", "P"}

\* C27: when the extractor's input path does not end in the archive
\* extension (case-insensitive), extraction is a no-op: the file is not
\* opened, nothing is written, the reported list of extracted files is empty,
\* completion is signalled exactly once and no error is raised.
C27_NonArchiveIsNoOp ==
    (unzip.pc \notin {"idle", "run"} /\ ~EndsInZipAnyCase(unzip.zip_path)) =>
        /\ unzip.pc = "done"
        /\ ~unzip.opened
        /\ unzip.written = {} /\ unzip.extracted_files = <<>>
        /\ unzip.progress_signal = <<>>
        /\ unzip.finished_signal = << <<>> >>

\* The runner was given a.zip.part, a real archive with a member, and is done.
C27_Witness ==
    /\ unzip.pc = "done"
    /\ unzip.zip_path = <<"a", ".", "z", "i", "p", ".", "p", "a", "r", "t">>
    /\ unzip.is_archive /\ Len(unzip.infolist) > 0

\* C28: for every combination of the decrypt and keep-key flags and of the
\* presence of the key file, the key archive is downloaded exactly when the
\* key file is absent and decryption or key retention is requested; in every
\* other case the pipeline goes on directly to decryption or finalization;
\* and the item ends Completed or Abandoned.
C28_ContinuesAfterExtraction ==
    (ps3.pc \notin {"idle", "extracted"} /\ ps3.iso_file # NoPath) =>
        /\ ps3.dkey_requested <=>
              (~ps3.dkey_before /\ (ps3.in.decrypt \/ ps3.in.keep_dkey))
        /\ (ps3.last = "handle_ps3_files" /\ ~ps3.dkey_requested) =>
              ps3.pc \in {"runner", "split_iso_thread", "file_operations_thread"}
        /\ ps3.pc \in Ps3Ended => ps3.pc \in {"completed", "abandoned"}

\* C29: after a decryption run whose output file exists, the encrypted ISO is
\* deleted exactly when its retention is not requested, and the decrypted
\* output exists under the final name ({base}.iso without retention,
\* {base}.iso.dec with retention), on both platforms.
C29_DecryptedUnderFinalName ==
    (ps3.pc # "idle" /\ ps3.last = "decryption_finished" /\ ps3.decrypted = "found") =>
        /\ ps3.iso_removed <=> ~ps3.in.keep_enc
        /\ ps3.decrypted_at =
              Path(processing_dir,
                   Name("base", IF ps3.in.keep_enc THEN ".iso.dec" ELSE ".iso"))
        /\ ps3.decrypted_at \in ps3.fs

\* C30: the PS3-ISO pipeline moves its final artifacts into the output
\* directory of the catalog the queue item belongs to, whichever tab is shown.
C30_OutputDirOfItemCatalog ==
    (ps3.pc \in {"file_operations_thread", "finished_signal", "completed"}) =>
        \A k \in 1..Len(ps3.operations) :
           ps3.operations[k].type = "move" =>
              ps3.operations[k].dst.dir = OutputDir(ps3.in.catalog)

\* The names of the parts of {base}.pkg.
PkgPartNames == { Name("base", e) : e \in {".pkg.66600", ".pkg.66601"} }

\* C31: in the PKG pipeline with splitting requested and a package of the
\* split size or more, every part the splitter produced is moved to the
\* output directory, the unsplit original is moved there when keep-unsplit is
\* set and discarded otherwise, and after the file operations the parts exist
\* in the output directory.
C31_SplitPartsDelivered ==
    (/\ psn.pc = "done"
     /\ psn.in.split /\ psn.in.big
     /\ Cardinality({ i \in 1..Len(psn.extracted_files) :
                        psn.extracted_files[i].name.ext = ".pkg" }) = 1) =>
        /\ \A m \in PkgPartNames : Path("output", m) \in psn.fs
        /\ \A m \in PkgPartNames :
              \E k \in 1..Len(psn.operations) :
                 /\ psn.operations[k].type = "move"
                 /\ psn.operations[k].dst = Path("output", m)
                 /\ psn.ok[k]
        /\ Path("output", Name("base", ".pkg")) \in psn.fs <=> psn.in.keep_unsplit_pkg
        /\ PsnPkgPath \notin psn.fs

\* decrypt_ps3_iso has started the CommandRunner of the decryption tool.
ToolSpawned == ps3.at_runner_start # {}

\* The tool is started only with decryption requested and both files there.
ToolOnlyWhenRequestedAndAvailable ==
    ToolSpawned =>
        /\ ps3.in.decrypt
        /\ ps3.iso_file # NoPath
        /\ DkeyPath \in ps3.at_runner_start

\* C32: in the PS3-ISO pipeline the decryption tool is run only if decryption
\* is requested and both the ISO and the key file are available; in every
\* other case no tool process is spawned and the pipeline proceeds to the
\* split/finalize step with the undecrypted ISO.
C32_DecryptOnlyWhenRequestedAndAvailable ==
    /\ ToolOnlyWhenRequestedAndAvailable
    /\ (ps3.pc \in Ps3Ended /\ ~ToolSpawned) =>
          /\ ps3.current_index # -1
          /\ ps3.decrypted = "none"
          /\ ps3.operations # <<>>

\* finalize_ps3_files has built its operation list and the
\* FileOperationsThread has not run it yet.
OperationsBuilt == ps3.pc = "file_operations_thread"

\* The operation list contains the operation.
InOperations(operation) ==
    \E k \in 1..Len(ps3.operations) : ps3.operations[k] = operation

\* The split parts and the single ISO, the key file and the staging zip are
\* handled in the list finalize_ps3_files builds as C33 says, for the artifact
\* having been split or not.
OperationsAsRequested ==
    LET output_dir == OutputDir(ps3.current_index)
        to_output(path) == Move(path, Path(output_dir, basename(path)))
    IN  /\ ps3.split_files # <<>> =>
              /\ \A k \in 1..Len(ps3.split_files) :
                    InOperations(to_output(ps3.split_files[k]))
              /\ InOperations(Remove(ps3.iso_file)) <=> ~ps3.in.keep_unsplit_dec
              /\ ~InOperations(to_output(ps3.iso_file))
        /\ ps3.split_files = <<>> =>
              /\ InOperations(to_output(ps3.iso_file))
              /\ ~InOperations(Remove(ps3.iso_file))
        /\ DkeyPath \in ps3.fs =>
              /\ InOperations(to_output(DkeyPath)) <=> ps3.in.keep_dkey
              /\ InOperations(Remove(DkeyPath)) <=> ~ps3.in.keep_dkey
        /\ ps3.operations[Len(ps3.operations)] = Remove(Ps3ZipPath)
        /\ \A k \in 1..(Len(ps3.operations) - 1) :
              ps3.operations[k] # Remove(Ps3ZipPath)

LeastFreeSuffix(tree) ==
    CHOOSE k \in 1..(MaxSuffix + 1) :
        /\ ~os_path_exists(os_path_join(MultiOutputDir, "base") \o "_" \o str_int(k), tree)
        /\ \A j \in 1..(k - 1) :
              os_path_exists(os_path_join(MultiOutputDir, "base") \o "_" \o str_int(j), tree)

\* C34: in the multi-file pipeline the archive is extracted into a per-item
\* subdirectory of the staging directory; the move destination chosen is
\* {output}/{base} if that path does not exist, otherwise {output}/{base}_k
\* for the smallest k >= 1 that does not exist; the chosen destination does not
\* exist when it is chosen, and no directory that existed in the output
\* directory is overwritten or merged into.
C34_DestinationIsFresh ==
    /\ multi.pc \notin {"idle", "downloaded"} =>
          /\ multi.output_path = os_path_join(processing_dir, "base")
          /\ \A d \in DOMAIN multi.before \ {ExtractDir} :
                d \in DOMAIN multi.tree /\ multi.tree[d] = multi.before[d]
    /\ multi.pc \in {"file_operations_thread", "finished_signal", "done"} =>
          /\ multi.dest_dir =
                IF ~os_path_exists(os_path_join(MultiOutputDir, "base"), multi.at_choice)
                THEN os_path_join(MultiOutputDir, "base")
                ELSE os_path_join(MultiOutputDir, "base") \o "_"
                        \o str_int(LeastFreeSuffix(multi.at_choice))
          /\ ~os_path_exists(multi.dest_dir, multi.at_choice)
          /\ multi.operations[1] = Move(ExtractDir, multi.dest_dir)
    /\ multi.pc # "idle" =>
          \A d \in DOMAIN multi.before \cap Candidates :
             /\ os_path_exists(d, multi.tree)
             /\ multi.tree[d] = {"old"}
             /\ ~os_path_exists(os_path_join(d, "base"), multi.tree)

\* {output}/{base} and {output}/{base}_1 existed, the extracted directory has
\* been moved to {output}/{base}_2 and the item is dequeued.
C34_Witness ==
    /\ multi.pc = "done"
    /\ os_path_exists("output/base", multi.before)
    /\ os_path_exists("output/base_1", multi.before)
    /\ multi.dest_dir = "output/base_2"
    /\ multi.ok[1]
    /\ multi.tree["output/base_2"] = {"f", "g"}

\* The extracted files that end in the declared extension, in list order.
MatchingFiles ==
    SelectSeq(plain.extracted_files,
              LAMBDA f : f.name.ext = plain.file_extension)

\* C35: in the plain pipeline the operation list is, in this order: for the
\* extracted file that ends in the catalog's extension the rename to
\* {base}{extension}, then its move to the output directory, and at the end
\* the removal of the archive; the archive is never removed before the rename
\* and the move have been performed.
C35_RenameMoveThenRemoveArchive ==
    plain.pc \in {"file_operations_thread", "finished_signal", "done"} =>
        LET n == Len(plain.operations)
            new_file_path == Path(processing_dir, Name("base", plain.file_extension))
        IN  /\ n = 2 * Len(MatchingFiles) + 1
            /\ \A j \in 1..Len(MatchingFiles) :
                  /\ plain.operations[2 * j - 1] = Rename(MatchingFiles[j], new_file_path)
                  /\ plain.operations[2 * j] =
                        Move(new_file_path, Path("output", new_file_path.name))
            /\ plain.operations[n] = Remove(PlainZipPath)
            /\ PlainZipPath \notin plain.fs => Len(plain.ok) = n
            /\ \A k \in 1..n :
                  plain.operations[k].type \in {"rename", "move"} =>
                     (k >= plain.index => PlainZipPath \in plain.fs)

\* One file matched, it has been renamed and moved, and the archive is
\* removed last.
C35_Witness ==
    /\ plain.pc = "done"
    /\ Len(MatchingFiles) = 1
    /\ MatchingFiles[1].name.stem = "x"
    /\ plain.ok = <<TRUE, TRUE, TRUE>>
    /\ Path("output", Name("base", plain.file_extension)) \in plain.fs
    /\ PlainZipPath \notin plain.fs

\* C40: in the plain pipeline, when no extracted file ends in the catalog's
\* extension (the empty list included), the operation list holds no rename and
\* no move, only the removal of the staged archive; the item is then reported
\* ready and dequeued, and nothing has reached the output directory.
C40_NoMatchOnlyRemovesArchive ==
    (/\ plain.pc \in {"file_operations_thread", "finished_signal", "done"}
     /\ \A i \in 1..Len(plain.extracted_files) :
           plain.extracted_files[i].name.ext # plain.file_extension) =>
        /\ plain.operations = <<Remove(PlainZipPath)>>
        /\ \A f \in plain.fs : f.dir # "output"
        /\ plain.pc = "done" =>
              /\ plain.ready /\ plain.dequeued
              /\ plain.ok = <<TRUE>>
              /\ PlainZipPath \notin plain.fs
              /\ \A i \in 1..Len(plain.extracted_files) :
                    plain.extracted_files[i] \in plain.fs

\* The archive held x.ISO only and the catalog declares .iso: the item is
\* ready and dequeued, x.ISO is still in the processing directory.
C40_Witness ==
    /\ plain.pc = "done"
    /\ plain.file_extension = ".iso"
    /\ plain.extracted_files = <<Path(processing_dir, Name("x", ".ISO"))>>
    /\ plain.ready /\ plain.dequeued
    /\ plain.fs = {Path(processing_dir, Name("x", ".ISO"))}

\* q is what is left of p after its first k items, for some k >= least.
IsSuffixFrom(q, p, least) ==
    \E k \in least..Len(p) : q = SubSeq(p, k + 1, Len(p))

\* C36: items are processed in FIFO order: the pipeline started by Start or
\* by the dispatcher is for the head of the queue, the item the dispatcher
\* takes is the one whose pipeline ran, what is left keeps its order, and
\* the next pipeline is for another item, so that no item is processed twice
\* and none is dequeued unprocessed.
C36_FifoOrder ==
    [][/\ (start_button /\ ~start_button') =>
             /\ IsSuffixFrom(queue_list', queue_list, 0)
             /\ ctx'.item = Head(queue_list')
       /\ (RunActive /\ last_op'.op = "takeItem") =>
             /\ Len(queue_list) > 0
             /\ Head(queue_list) = ctx.item
             /\ IsSuffixFrom(queue_list', queue_list, 1)
             /\ worker' # "none" =>
                   /\ ctx'.item = Head(queue_list')
                   /\ ctx'.item # ctx.item]_vars

\* The file names of the first n members of the archive.
FirstMembers(n) == [ k \in 1..n |-> unzip.infolist[k].filename ]

\* C37: once extraction is cancelled the extractor extracts no further
\* entry; a file once written stays; the list the extractor reports holds
\* exactly the entries extracted, which are the first entries of the
\* archive in archive order, and without cancellation every entry of the
\* archive.
C37_CancelStopsExtraction ==
    /\ [][/\ ~unzip.running =>
                /\ unzip'.extracted_files = unzip.extracted_files
                /\ unzip'.written = unzip.written
          /\ unzip.written \subseteq unzip'.written]_vars
    /\ []((unzip.pc = "done" /\ unzip.opened) =>
            /\ unzip.finished_signal = <<unzip.extracted_files>>
            /\ Len(unzip.extracted_files) <= Len(unzip.infolist)
            /\ unzip.extracted_files = FirstMembers(Len(unzip.extracted_files))
            /\ unzip.written = { unzip.extracted_files[k] :
                                   k \in 1..Len(unzip.extracted_files) }
            /\ unzip.running => unzip.extracted_files = FirstMembers(Len(unzip.infolist)))

\* An archive of two members was cancelled after the first: the list reported
\* holds the first member only and its file is in place.
C37_Witness ==
    /\ unzip.pc = "done"
    /\ Len(unzip.infolist) = 2
    /\ ~unzip.running
    /\ unzip.finished_signal = << <<unzip.infolist[1].filename>> >>
    /\ unzip.written = {unzip.infolist[1].filename}

\* The sum of the sizes of the first n members.
CumulativeSize(n) == TotalSize(SubSeq(unzip.infolist, 1, n))

\* C38: for every archive, one whose entries all have size zero included,
\* the extractor emits after each extracted entry the progress value
\* floor(100 * cumulative extracted bytes / total bytes); the values do not
\* decrease, lie in 0..100, and the last is 100 when extraction is not
\* cancelled.
C38_ProgressAfterEveryEntry ==
    unzip.opened =>
        /\ unzip.pc # "raised"
        /\ Len(unzip.progress_signal) = Len(unzip.extracted_files)
        /\ \A k \in 1..Len(unzip.progress_signal) :
              /\ unzip.progress_signal[k] \in 0..100
              /\ k > 1 => unzip.progress_signal[k - 1] <= unzip.progress_signal[k]
              /\ unzip.total_size > 0 =>
                    unzip.progress_signal[k] =
                       (100 * CumulativeSize(k)) \div unzip.total_size
        /\ (unzip.pc = "done" /\ unzip.running /\ unzip.infolist # <<>>) =>
              unzip.progress_signal[Len(unzip.progress_signal)] = 100

\* C39: when the dispatcher (at Start, or after a handler took an item) finds
\* at the head an item whose catalog index matches no system, the item is
\* dequeued and no stage is started for it; the dispatcher goes on with the
\* next head: a pipeline is started for the first item left that has a
\* system, or, the queue being empty, the run ends with the counters reset
\* and the controls re-enabled.
C39_UnknownCatalogSkipped ==
    [][LET seen == IF last_op'.op = "takeItem" THEN TakeItem0(queue_list)
                   ELSE queue_list
           dispatched ==
               /\ app = "running" /\ app' = "running"
               /\ \/ last_op'.op = "takeItem"
                  \/ start_button /\ last_op'.op = "other" /\ queue_list' # queue_list
       IN  (dispatched /\ seen # <<>> /\ ~HasSystem(seen[1][2])) =>
              /\ IsSuffixFrom(queue_list', seen, 1)
              /\ IF queue_list' = <<>>
                 THEN /\ worker' = "none"
                      /\ processed_items' = 0 /\ total_items' = 0
                      /\ add_to_queue_button' /\ remove_from_queue_button'
                      /\ start_button'
                 ELSE /\ worker' # "none"
                      /\ ctx'.item = Head(queue_list')
                      /\ HasSystem(ctx'.item[2])
                      /\ ~start_button']_vars

\* Start found an item of a tab without a system at the head of a queue of
\* two, took it and started the pipeline of the second.
C39_Witness ==
    /\ RunActive
    /\ \E t \in Tabs : ~HasSystem(t)
    /\ processed_items = 2 /\ total_items = 2
    /\ Len(queue_list) = 1 /\ HasSystem(queue_list[1][2])
    /\ worker \in {"download_thread", "unzip_runner"}
    /\ ctx.item = queue_list[1]

====
